---- MODULE Spec2Model ----
(***************************************************************************)
(* Model of the task / time-tracking core of notes-cli.                    *)
(*                                                                         *)
(* Text is modelled at character level: a Go string is a sequence of       *)
(* one-character strings, a file is a sequence of lines.  The bullet rune  *)
(* U+2022 is written Bullet.  Instants are whole seconds since             *)
(* 2024-01-01 00:00:00 UTC and durations are whole seconds.                *)
(***************************************************************************)
EXTENDS Integers, Sequences, FiniteSets, TLC

VARIABLES
    files,      \* path -> content (the lines between newlines), or Missing
    timer,      \* content of .timer_state.json, or NoState (file absent)
    now,        \* the wall clock, seconds since the epoch (UTC)
    tz,         \* offset of time.Local east of UTC, in seconds
    ran,        \* history: seconds the current timer has spent Running
    ticks,      \* history: how often the clock has advanced
    nlogged,    \* history: how many time entries have been written
    last,       \* the command that has just run and its outcome, until it exits
    call,       \* arguments of a library call under study
    ret         \* its result, or NotCalled

vars == <<files, timer, now, tz, ran, ticks, nlogged, last, call, ret>>

\* A file that does not exist has no content at all (an existing file has at
\* least the one, possibly empty, line strings.Split gives); an absent value
\* (nil pointer, no state file, no result yet) is the empty sequence and a
\* present one a sequence of length one.
Missing   == <<>>
NoState   == <<>>
NotCalled == <<>>
NoTask    == <<>>
NoDate    == [y |-> 0, m |-> 0, d |-> 0]

(***************************************************************************)
(* The Go string functions the code calls.                                 *)
(***************************************************************************)
Bullet == "*"

\* unicode.IsSpace, and \s of regexp, over the characters of the model
IsSpace(c) == c \in {" ", "\t"}

IsDigit(c) == c \in {"0", "1", "2", "3", "4", "5", "6", "7", "8", "9"}

Upper == <<"A","B","C","D","E","F","G","H","I","J","K","L","M",
           "N","O","P","Q","R","S","T","U","V","W","X","Y","Z">>
Lower == <<"a","b","c","d","e","f","g","h","i","j","k","l","m",
           "n","o","p","q","r","s","t","u","v","w","x","y","z">>

IsLetter(c) == \E i \in 1..26 : c = Upper[i] \/ c = Lower[i]

\* \w of regexp: [0-9A-Za-z_]
IsWord(c) == IsDigit(c) \/ IsLetter(c) \/ c = "_"

ToLowerChar(c) ==
    IF \E i \in 1..26 : Upper[i] = c
    THEN Lower[CHOOSE i \in 1..26 : Upper[i] = c]
    ELSE c

ToLower(s) == [i \in 1..Len(s) |-> ToLowerChar(s[i])]

EqualFold(a, b) == ToLower(a) = ToLower(b)

\* the suffix of s that starts at index i
From(s, i) == SubSeq(s, i, Len(s))

\* number of leading whitespace characters
LeadingSpaces(s) ==
    IF \A i \in 1..Len(s) : IsSpace(s[i]) THEN Len(s)
    ELSE (CHOOSE i \in 1..Len(s) :
             ~IsSpace(s[i]) /\ \A j \in 1..(i-1) : IsSpace(s[j])) - 1

TrimLeftSpace(s) == From(s, LeadingSpaces(s) + 1)

TrimRightSpace(s) ==
    IF \A i \in 1..Len(s) : IsSpace(s[i]) THEN <<>>
    ELSE SubSeq(s, 1, CHOOSE i \in 1..Len(s) :
                         ~IsSpace(s[i]) /\ \A j \in (i+1)..Len(s) : IsSpace(s[j]))

TrimSpace(s) == TrimRightSpace(TrimLeftSpace(s))

HasPrefix(s, p) == Len(s) >= Len(p) /\ SubSeq(s, 1, Len(p)) = p

HasSuffix(s, p) == Len(s) >= Len(p) /\ SubSeq(s, Len(s) - Len(p) + 1, Len(s)) = p

TrimPrefix(s, p) == IF HasPrefix(s, p) THEN From(s, Len(p) + 1) ELSE s

TrimSuffix(s, p) == IF HasSuffix(s, p) THEN SubSeq(s, 1, Len(s) - Len(p)) ELSE s

\* sub occurs in s at index i
MatchAt(s, sub, i) ==
    i + Len(sub) - 1 <= Len(s) /\ \A k \in 1..Len(sub) : s[i + k - 1] = sub[k]

RECURSIVE IndexFrom(_, _, _)
IndexFrom(s, sub, i) ==
    IF i + Len(sub) - 1 > Len(s) THEN 0
    ELSE IF MatchAt(s, sub, i) THEN i
    ELSE IndexFrom(s, sub, i + 1)

\* strings.Index, 1-based; 0 when sub does not occur
Index(s, sub) == IndexFrom(s, sub, 1)

Contains(s, sub) == Index(s, sub) # 0

\* strings.Split for a non-empty separator
RECURSIVE Split(_, _)
Split(s, sep) ==
    LET i == Index(s, sep)
    IN  IF i = 0 THEN <<s>>
        ELSE <<SubSeq(s, 1, i - 1)>> \o Split(From(s, i + Len(sep)), sep)

\* strings.SplitN(s, sep, 2)
SplitN2(s, sep) ==
    LET i == Index(s, sep)
    IN  IF i = 0 THEN <<s>>
        ELSE <<SubSeq(s, 1, i - 1), From(s, i + Len(sep))>>

\* strings.Join(lines, sep)
RECURSIVE Join(_, _)
Join(ss, sep) ==
    IF Len(ss) = 0 THEN <<>>
    ELSE IF Len(ss) = 1 THEN ss[1]
    ELSE ss[1] \o sep \o Join(Tail(ss), sep)

DigitVal(c) ==
    CASE c = "0" -> 0 [] c = "1" -> 1 [] c = "2" -> 2 [] c = "3" -> 3 [] c = "4" -> 4
      [] c = "5" -> 5 [] c = "6" -> 6 [] c = "7" -> 7 [] c = "8" -> 8 [] c = "9" -> 9

DigitChar(n) == <<"0", "1", "2", "3", "4", "5", "6", "7", "8", "9">>[n + 1]

AllDigits(s) == \A i \in 1..Len(s) : IsDigit(s[i])

\* value of a string of digits
RECURSIVE DigitsVal(_)
DigitsVal(s) ==
    IF Len(s) = 0 THEN 0
    ELSE DigitsVal(SubSeq(s, 1, Len(s) - 1)) * 10 + DigitVal(s[Len(s)])

\* strconv.Atoi: an optional sign, then one or more digits
Atoi(s) ==
    LET body == IF Len(s) > 0 /\ s[1] \in {"+", "-"} THEN Tail(s) ELSE s
    IN  IF Len(body) = 0 \/ ~AllDigits(body) THEN [ok |-> FALSE, val |-> 0]
        ELSE [ok |-> TRUE,
              val |-> IF s[1] = "-" THEN 0 - DigitsVal(body) ELSE DigitsVal(body)]

\* fmt %d
RECURSIVE NatStr(_)
NatStr(n) == IF n < 10 THEN <<DigitChar(n)>> ELSE NatStr(n \div 10) \o <<DigitChar(n % 10)>>

Itoa(n) == IF n < 0 THEN <<"-">> \o NatStr(0 - n) ELSE NatStr(n)

\* a number in a zero-padded field of w digits, as time.Format writes it
RECURSIVE Pad(_, _)
Pad(n, w) == IF w = 0 THEN <<>> ELSE Pad(n \div 10, w - 1) \o <<DigitChar(n % 10)>>

\* Go integer division and remainder truncate toward zero
Quo(a, b) == IF a >= 0 THEN a \div b ELSE 0 - ((0 - a) \div b)
Rem(a, b) == a - b * Quo(a, b)

(***************************************************************************)
(* Calendar and clock: package time.                                       *)
(***************************************************************************)
SecPerMin  == 60
SecPerHour == 3600
SecPerDay  == 86400

IsLeap(y) == y % 4 = 0 /\ (y % 100 # 0 \/ y % 400 = 0)

DaysIn(m, y) ==
    IF m = 2 THEN (IF IsLeap(y) THEN 29 ELSE 28)
    ELSE IF m \in {4, 6, 9, 11} THEN 30 ELSE 31

RECURSIVE DaysBeforeMonth(_, _)
DaysBeforeMonth(m, y) == IF m = 1 THEN 0 ELSE DaysBeforeMonth(m - 1, y) + DaysIn(m - 1, y)

\* days from 2024-01-01 to the first of January of year y
RECURSIVE DaysBeforeYear(_)
DaysBeforeYear(y) ==
    IF y = 2024 THEN 0
    ELSE IF y > 2024 THEN DaysBeforeYear(y - 1) + (IF IsLeap(y - 1) THEN 366 ELSE 365)
    ELSE DaysBeforeYear(y + 1) - (IF IsLeap(y) THEN 366 ELSE 365)

\* day number of a calendar date, 2024-01-01 being day 0
DayNumber(d) == DaysBeforeYear(d.y) + DaysBeforeMonth(d.m, d.y) + d.d - 1

\* the calendar date of day number n of the year 2024
RECURSIVE MonthOfDay(_, _)
MonthOfDay(n, m) == IF n < DaysIn(m, 2024) THEN [y |-> 2024, m |-> m, d |-> n + 1]
                    ELSE MonthOfDay(n - DaysIn(m, 2024), m + 1)

\* wall-clock reading of instant t in a zone off seconds east of UTC
Wall(t, off) == t + off

\* t.Year(), t.Month(), t.Day() of a wall-clock reading
DateOf(w) == MonthOfDay(w \div SecPerDay, 1)

\* t.Weekday() of a wall-clock reading: 0 is Sunday; 2024-01-01 was a Monday
Weekday(w) == ((w \div SecPerDay) + 1) % 7

\* t.Format("2006-01-02")
FormatDate(d) == Pad(d.y, 4) \o <<"-">> \o Pad(d.m, 2) \o <<"-">> \o Pad(d.d, 2)

\* t.Format("15:04") of a wall-clock reading
FormatClock(w) == Pad((w % SecPerDay) \div SecPerHour, 2) \o <<":">>
                  \o Pad((w % SecPerHour) \div SecPerMin, 2)

\* time.Parse("2006-01-02", s): four, two and two digits, a month of the
\* year and a day of that month; nothing else
ParseDate(s) ==
    IF /\ Len(s) = 10
       /\ AllDigits(SubSeq(s, 1, 4)) /\ s[5] = "-"
       /\ AllDigits(SubSeq(s, 6, 7)) /\ s[8] = "-"
       /\ AllDigits(SubSeq(s, 9, 10))
    THEN LET y == DigitsVal(SubSeq(s, 1, 4))
             m == DigitsVal(SubSeq(s, 6, 7))
             d == DigitsVal(SubSeq(s, 9, 10))
         IN  IF m \in 1..12 /\ d >= 1 /\ d <= DaysIn(m, y)
             THEN [ok |-> TRUE, date |-> [y |-> y, m |-> m, d |-> d]]
             ELSE [ok |-> FALSE, date |-> NoDate]
    ELSE [ok |-> FALSE, date |-> NoDate]

\* time.Parse("15:04", s): an hour of one or two digits below 24, a colon,
\* a minute of two digits below 60.  The result is seconds into the day.
ParseClock(s) ==
    LET c  == Index(s, <<":">>)
        hs == SubSeq(s, 1, c - 1)
        ms == From(s, c + 1)
    IN  IF /\ c \in {2, 3}
           /\ AllDigits(hs) /\ Len(ms) = 2 /\ AllDigits(ms)
           /\ DigitsVal(hs) < 24 /\ DigitsVal(ms) < 60
        THEN [ok |-> TRUE, sec |-> DigitsVal(hs) * SecPerHour + DigitsVal(ms) * SecPerMin]
        ELSE [ok |-> FALSE, sec |-> 0]

\* time.Date(y, m, d, hh, mm, 0, 0, loc): the instant of a wall-clock reading
DateInstant(d, sec, off) == DayNumber(d) * SecPerDay + sec - off

(***************************************************************************)
(* Duration codec.                                                         *)
(***************************************************************************)
\* length of the longest prefix of s made of digits
DigitRun(s) ==
    IF AllDigits(s) THEN Len(s)
    ELSE (CHOOSE i \in 1..Len(s) : ~IsDigit(s[i]) /\ AllDigits(SubSeq(s, 1, i - 1))) - 1

\* length of the longest prefix of s without a digit or a dot: a unit name
UnitRun(s) ==
    LET stop(c) == IsDigit(c) \/ c = "."
    IN  IF \A i \in 1..Len(s) : ~stop(s[i]) THEN Len(s)
        ELSE (CHOOSE i \in 1..Len(s) :
                 stop(s[i]) /\ \A j \in 1..(i-1) : ~stop(s[j])) - 1

RECURSIVE Pow10(_)
Pow10(n) == IF n = 0 THEN 1 ELSE 10 * Pow10(n - 1)

\* unitMap of time.ParseDuration: the units and their length in seconds
\* (0 for the units below one second, which this model's resolution drops)
UnitNames == {<<"h">>, <<"m">>, <<"s">>, <<"m","s">>, <<"u","s">>, <<"n","s">>}

UnitSeconds(u) == IF u = <<"h">> THEN SecPerHour
                  ELSE IF u = <<"m">> THEN SecPerMin
                  ELSE IF u = <<"s">> THEN 1 ELSE 0

\* the loop of time.ParseDuration over the groups <number>[.<fraction>]<unit>
RECURSIVE DurationGroups(_)
DurationGroups(s) ==
    IF Len(s) = 0 THEN [ok |-> TRUE, val |-> 0]
    ELSE
      LET n1   == DigitRun(s)
          r1   == From(s, n1 + 1)
          dot  == Len(r1) > 0 /\ r1[1] = "."
          r2   == IF dot THEN Tail(r1) ELSE r1
          n2   == IF dot THEN DigitRun(r2) ELSE 0
          r3   == From(r2, n2 + 1)
          ul   == UnitRun(r3)
          unit == SubSeq(r3, 1, ul)
          int  == DigitsVal(SubSeq(s, 1, n1))
          frac == DigitsVal(SubSeq(r2, 1, n2))
          rest == DurationGroups(From(r3, ul + 1))
      IN  IF n1 + n2 = 0 \/ unit \notin UnitNames \/ ~rest.ok
          THEN [ok |-> FALSE, val |-> 0]
          ELSE [ok |-> TRUE,
                val |-> int * UnitSeconds(unit)
                        + (frac * UnitSeconds(unit)) \div Pow10(n2) + rest.val]

\* time.ParseDuration: [-+]?(<number>[.<fraction>]<unit>)+, or "0"
GoParseDuration(s) ==
    LET neg  == Len(s) > 0 /\ s[1] = "-"
        body == IF Len(s) > 0 /\ s[1] \in {"+", "-"} THEN Tail(s) ELSE s
        g    == DurationGroups(body)
    IN  IF body = <<"0">> THEN [ok |-> TRUE, val |-> 0]
        ELSE IF Len(body) = 0 \/ ~g.ok THEN [ok |-> FALSE, val |-> 0]
        ELSE [ok |-> TRUE, val |-> IF neg THEN 0 - g.val ELSE g.val]

\* the first result if it is a success, else the second
FirstOk(a, b) == IF a.ok THEN a ELSE b

\* "Handle formats like 1h15m, 30m, 2h manually"
ManualDuration(s) ==
    LET hasH  == Contains(s, <<"h">>)
        hasM  == Contains(s, <<"m">>)
        parts == Split(s, <<"h">>)
        fail  == [ok |-> FALSE, val |-> 0]
    IN  IF hasH /\ hasM THEN
            IF Len(parts) # 2 THEN fail
            ELSE LET hours   == Atoi(parts[1])
                     minutes == Atoi(TrimSuffix(parts[2], <<"m">>))
                 IN  IF ~hours.ok \/ ~minutes.ok THEN fail
                     ELSE [ok |-> TRUE,
                           val |-> hours.val * SecPerHour + minutes.val * SecPerMin]
        ELSE IF hasH THEN
            LET hours == Atoi(TrimSuffix(s, <<"h">>))
            IN  IF ~hours.ok THEN fail
                ELSE [ok |-> TRUE, val |-> hours.val * SecPerHour]
        ELSE IF hasM THEN
            LET minutes == Atoi(TrimSuffix(s, <<"m">>))
            IN  IF ~minutes.ok THEN fail
                ELSE [ok |-> TRUE, val |-> minutes.val * SecPerMin]
        ELSE fail

\* a mutant of parseDuration: only the manual formats are read
parseDurationManualOnly(str) == ManualDuration(ToLower(str))

parseDuration(str) ==
    FirstOk(GoParseDuration(ToLower(str)), ManualDuration(ToLower(str)))

\* a mutant of formatDuration: the minutes are left out when there are hours
formatDurationHoursOnly(d) ==
    LET hours   == Quo(d, SecPerHour)
        minutes == Rem(Quo(d, SecPerMin), 60)
    IN  IF d = 0 THEN <<"0", "m">>
        ELSE IF hours > 0 THEN Itoa(hours) \o <<"h">>
        ELSE Itoa(minutes) \o <<"m">>

formatDuration(d) ==
    LET hours   == Quo(d, SecPerHour)
        minutes == Rem(Quo(d, SecPerMin), 60)
    IN  IF d = 0 THEN <<"0", "m">>
        ELSE IF hours > 0 /\ minutes > 0
             THEN Itoa(hours) \o <<"h">> \o Itoa(minutes) \o <<"m">>
        ELSE IF hours > 0 THEN Itoa(hours) \o <<"h">>
        ELSE Itoa(minutes) \o <<"m">>


(***************************************************************************)
(* Time entries.                                                           *)
(***************************************************************************)
\* a time.Time: an instant and the offset of its location
Time(t, off) == [t |-> t, off |-> off]

STimeLog     == <<"T","i","m","e"," ","l","o","g",":">>
SRemaining   == <<"R","e","m","a","i","n","i","n","g",":">>
STotal       == <<"T","o","t","a","l",":">>
SWorkSession == <<"W","o","r","k"," ","s","e","s","s","i","o","n">>
SDash        == <<" ","-"," ">>

\* durPattern \(([^)]+)\) at index i: length of the match, 0 for none
DurLenAt(s, i) ==
    IF i <= Len(s) /\ s[i] = "(" /\ \E k \in (i+2)..Len(s) : s[k] = ")"
                                       /\ \A j \in (i+1)..(k-1) : s[j] # ")"
    THEN (CHOOSE k \in (i+2)..Len(s) : s[k] = ")" /\ \A j \in (i+1)..(k-1) : s[j] # ")")
         - i + 1
    ELSE 0

\* dueDatePattern due:(\d{4}-\d{2}-\d{2}) at index i
DueLenAt(s, i) ==
    IF /\ MatchAt(s, <<"d","u","e",":">>, i)
       /\ i + 13 <= Len(s)
       /\ AllDigits(SubSeq(s, i + 4, i + 7)) /\ s[i + 8] = "-"
       /\ AllDigits(SubSeq(s, i + 9, i + 10)) /\ s[i + 11] = "-"
       /\ AllDigits(SubSeq(s, i + 12, i + 13))
    THEN 14 ELSE 0

\* the class [^\\s] of estimatePattern: any character but a backslash or s
EstimateChar(c) == c \notin {"\\", "s"}

\* estimatePattern est:([^\\s]+) at index i
EstLenAt(s, i) ==
    IF MatchAt(s, <<"e","s","t",":">>, i) /\ i + 4 <= Len(s) /\ EstimateChar(s[i + 4])
    THEN IF \A j \in (i+4)..Len(s) : EstimateChar(s[j]) THEN Len(s) - i + 1
         ELSE (CHOOSE k \in (i+5)..Len(s) :
                  ~EstimateChar(s[k]) /\ \A j \in (i+4)..(k-1) : EstimateChar(s[j])) - i
    ELSE 0

\* tagPattern #(\w+) at index i
TagLenAt(s, i) ==
    IF i < Len(s) /\ s[i] = "#" /\ IsWord(s[i + 1])
    THEN IF \A j \in (i+1)..Len(s) : IsWord(s[j]) THEN Len(s) - i + 1
         ELSE (CHOOSE k \in (i+2)..Len(s) :
                  ~IsWord(s[k]) /\ \A j \in (i+1)..(k-1) : IsWord(s[j])) - i
    ELSE 0

PatLenAt(pat, s, i) ==
    CASE pat = "dur" -> DurLenAt(s, i)
      [] pat = "due" -> DueLenAt(s, i)
      [] pat = "est" -> EstLenAt(s, i)
      [] pat = "tag" -> TagLenAt(s, i)

RECURSIVE FindIndexFrom(_, _, _)
FindIndexFrom(pat, s, i) ==
    IF i > Len(s) THEN 0
    ELSE IF PatLenAt(pat, s, i) > 0 THEN i
    ELSE FindIndexFrom(pat, s, i + 1)

\* Regexp.FindStringIndex: index of the leftmost match, 0 for none
FindIndex(pat, s) == FindIndexFrom(pat, s, 1)

\* Regexp.ReplaceAllString(s, "")
RECURSIVE RemoveAll(_, _)
RemoveAll(pat, s) ==
    LET i == FindIndex(pat, s)
    IN  IF i = 0 THEN s
        ELSE SubSeq(s, 1, i - 1) \o RemoveAll(pat, From(s, i + PatLenAt(pat, s, i)))

\* Regexp.FindAllString(s, -1)
RECURSIVE FindAll(_, _)
FindAll(pat, s) ==
    LET i == FindIndex(pat, s)
        n == PatLenAt(pat, s, i)
    IN  IF i = 0 THEN <<>>
        ELSE <<SubSeq(s, i, i + n - 1)>> \o FindAll(pat, From(s, i + n))

NoEntry == [ok |-> FALSE]

\* parseTimeEntry, stage by stage: each stage is given what the stages
\* before it have computed

\* "Combine date with times"
EntryOfTimes(duration, date, startT, endT, description) ==
    IF ~startT.ok THEN NoEntry
    ELSE IF ~endT.ok THEN NoEntry
    ELSE [ok          |-> TRUE,
          Date        |-> Time(DayNumber(date.date) * SecPerDay, 0),
          StartTime   |-> Time(DateInstant(date.date, startT.sec, tz), tz),
          EndTime     |-> Time(DateInstant(date.date, endT.sec, tz), tz),
          Duration    |-> duration.val,
          Description |-> description]

\* the date and the time range
EntryOfDate(duration, date, range, description) ==
    IF ~date.ok THEN NoEntry
    ELSE IF Len(range) # 2 THEN NoEntry
    ELSE EntryOfTimes(duration, date, ParseClock(range[1]), ParseClock(range[2]),
                      description)

\* "Parse date and time range"
EntryOfFields(duration, fields, description) ==
    IF ~duration.ok THEN NoEntry
    ELSE IF Len(fields) # 2 THEN NoEntry
    ELSE EntryOfDate(duration, ParseDate(fields[1]), Split(fields[2], <<"-">>),
                     description)

\* "Extract duration in parentheses", "Remove duration from time part"
EntryOfTimePart(timePart, di, description) ==
    IF di = 0 THEN NoEntry
    ELSE EntryOfFields(
             parseDuration(SubSeq(timePart, di + 1, di + DurLenAt(timePart, di) - 2)),
             Split(TrimSpace(RemoveAll("dur", timePart)), <<" ">>),
             description)

EntryOfParts(parts) ==
    IF Len(parts) # 2 THEN NoEntry
    ELSE EntryOfTimePart(parts[1], FindIndex("dur", parts[1]), parts[2])

parseTimeEntry(rawLine) ==
    EntryOfParts(SplitN2(TrimSpace(TrimSpace(TrimPrefix(rawLine, <<Bullet>>))), SDash))

formatTimeEntry(entry) ==
    <<" ", " ", Bullet, " ">>
    \o FormatDate(DateOf(Wall(entry.Date.t, entry.Date.off))) \o <<" ">>
    \o FormatClock(Wall(entry.StartTime.t, entry.StartTime.off)) \o <<"-">>
    \o FormatClock(Wall(entry.EndTime.t, entry.EndTime.off))
    \o <<" ", "(">> \o formatDuration(entry.Duration) \o <<")">>
    \o SDash \o entry.Description

(***************************************************************************)
(* Task Extractor.                                                         *)
(***************************************************************************)
\* bufio.Scanner over the file: the lines, without the empty piece that
\* follows a final newline
ScannerLines(content) ==
    IF content[Len(content)] = <<>> THEN SubSeq(content, 1, Len(content) - 1)
    ELSE content

\* taskPattern ^(\s*)-\s*\[\s*\]\s*(.*)$
TaskMatch(line) ==
    LET indent == LeadingSpaces(line)
        r1     == From(line, indent + 1)
        r2     == TrimLeftSpace(Tail(r1))
        r3     == TrimLeftSpace(Tail(r2))
    IN  IF /\ Len(r1) > 0 /\ r1[1] = "-"
           /\ Len(r2) > 0 /\ r2[1] = "["
           /\ Len(r3) > 0 /\ r3[1] = "]"
        THEN [ok |-> TRUE, indent |-> indent, text |-> TrimLeftSpace(Tail(r3))]
        ELSE [ok |-> FALSE]

\* timeLogPattern ^\s*Time log:\s*$
TimeLogMatch(line) == TrimSpace(line) = STimeLog

\* timeEntryPattern ^\s*<bullet>
TimeEntryMatch(line) ==
    LeadingSpaces(line) < Len(line) /\ line[LeadingSpaces(line) + 1] = Bullet

\* remainingPattern ^\s*Remaining:\s*(.+)$ and totalPattern ^\s*Total:\s*(.+)$:
\* the keyword after the indentation, followed by at least one character
LabelMatch(label, line) ==
    LET r == TrimLeftSpace(line)
    IN  IF HasPrefix(r, label) /\ Len(r) > Len(label)
        THEN [ok |-> TRUE, text |-> TrimSpace(From(r, Len(label) + 1))]
        ELSE [ok |-> FALSE]

\* the task record built from a task line
NewTask(match, lineNum, filePath) ==
    LET taskText == TrimSpace(match.text)
        dueI     == FindIndex("due", taskText)
        due      == ParseDate(SubSeq(taskText, dueI + 4, dueI + 13))
        t1       == IF dueI # 0 THEN RemoveAll("due", taskText) ELSE taskText
        estI     == FindIndex("est", taskText)
        t2       == IF estI # 0 THEN RemoveAll("est", t1) ELSE t1
    IN  [Text        |-> TrimSpace(t2),
         Line        |-> lineNum,
         Indent      |-> match.indent,
         FilePath    |-> filePath,
         DueDate     |-> IF dueI # 0 /\ due.ok THEN due.date ELSE NoDate,
         Estimate    |-> IF estI # 0
                         THEN SubSeq(taskText, estI + 4, estI + EstLenAt(taskText, estI) - 1)
                         ELSE <<>>,
         Tags        |-> FindAll("tag", taskText),
         TimeEntries |-> <<>>,
         TotalTime   |-> 0,
         Remaining   |-> <<>>]

EntryOf(e) == [Date |-> e.Date, StartTime |-> e.StartTime, EndTime |-> e.EndTime,
               Duration |-> e.Duration, Description |-> e.Description]

\* "Parse time entries": the entry, if it parses, is appended to the task
AddParsedEntry(st, entry) ==
    IF entry.ok
    THEN [st EXCEPT !.currentTask[1].TimeEntries = Append(@, EntryOf(entry)),
                    !.currentTask[1].TotalTime = @ + entry.Duration]
    ELSE st

\* "Parse total time": the total, if it parses, replaces the task's total
SetTotal(st, duration) ==
    [st EXCEPT !.currentTask[1].TotalTime = IF duration.ok THEN duration.val ELSE @,
               !.inTimeLog = FALSE]

\* "Save previous task if exists", "Don't forget the last task"
Flushed(st) ==
    IF st.currentTask # NoTask THEN Append(st.tasks, st.currentTask[1]) ELSE st.tasks

\* one iteration of the scanner loop of extractTasks
ScanStep(st, line, lineNum, filePath) ==
    IF TaskMatch(line).ok THEN
        [tasks       |-> Flushed(st),
         currentTask |-> <<NewTask(TaskMatch(line), lineNum, filePath)>>,
         inTimeLog   |-> FALSE]
    ELSE IF st.currentTask = NoTask THEN st
    ELSE IF TimeLogMatch(line) THEN [st EXCEPT !.inTimeLog = TRUE]
    ELSE IF st.inTimeLog /\ TimeEntryMatch(line) THEN AddParsedEntry(st, parseTimeEntry(line))
    ELSE IF LabelMatch(SRemaining, line).ok THEN
        [st EXCEPT !.currentTask[1].Remaining = LabelMatch(SRemaining, line).text,
                   !.inTimeLog = FALSE]
    ELSE IF LabelMatch(STotal, line).ok
         THEN SetTotal(st, parseDuration(LabelMatch(STotal, line).text))
    ELSE IF ~HasPrefix(line, <<" ", " ">>) /\ TrimSpace(line) # <<>>
         THEN [st EXCEPT !.inTimeLog = FALSE]
    ELSE st

RECURSIVE ScanFrom(_, _, _, _)
ScanFrom(st, lines, lineNum, filePath) ==
    IF lineNum > Len(lines) THEN st
    ELSE ScanFrom(ScanStep(st, lines[lineNum], lineNum, filePath), lines, lineNum + 1, filePath)

\* the tasks of a file's content
extractContent(content, filePath) ==
    Flushed(ScanFrom([tasks |-> <<>>, currentTask |-> NoTask, inTimeLog |-> FALSE],
                     ScannerLines(content), 1, filePath))

\* extractTasks over a file system fs; a file that cannot be opened has no tasks
extractTasks(fs, filePath) ==
    IF fs[filePath] = Missing THEN <<>> ELSE extractContent(fs[filePath], filePath)

\* the three priority markers are written RED, YELLOW and WHITE
detectPriority(taskText) ==
    LET taskLower == ToLower(taskText)
        high   == {<<"u","r","g","e","n","t">>, <<"a","s","a","p">>, <<"c","r","i","t","i","c","a","l">>, <<"i","m","p","o","r","t","a","n","t">>, <<"!","!","!">>}
        medium == {<<"!","!">>, <<"s","o","o","n">>, <<"p","r","i","o","r","i","t","y">>}
    IN  IF \E k \in high : Contains(taskLower, k) THEN "RED"
        ELSE IF \E k \in medium : Contains(taskLower, k) THEN "YELLOW"
        ELSE "WHITE"

getPriorityLevel(priorityEmoji) ==
    IF priorityEmoji = "RED" THEN <<"h","i","g","h">>
    ELSE IF priorityEmoji = "YELLOW" THEN <<"m","e","d","i","u","m">>
    ELSE <<"l","o","w">>

(***************************************************************************)
(* Time-Log Writer.                                                        *)
(***************************************************************************)
\* lines[i] of the Go code, whose indices start at 0
At0(lines, i) == lines[i + 1]

\* "Stop if we hit another task or non-indented content"
EndsBlock(lines, i, taskLine) ==
    /\ ~HasPrefix(At0(lines, i), <<" ", " ">>)
    /\ TrimSpace(At0(lines, i)) # <<>>
    /\ i > taskLine

\* the outer loop of addTimeEntry: the index of the "Time log:" line it
\* settles on, or -1 when it leaves the loop without one
RECURSIVE FindTimeLog(_, _, _)
FindTimeLog(lines, i, taskLine) ==
    IF ~(i < Len(lines) /\ i < taskLine + 10) THEN -1
    ELSE IF Contains(At0(lines, i), STimeLog) THEN i
    ELSE IF EndsBlock(lines, i, taskLine) THEN -1
    ELSE FindTimeLog(lines, i + 1, taskLine)

\* a mutant of InsertPoint: the new entry goes right after the marker
InsertPointTop(lines, j, insertLine) == insertLine

\* the inner loop: where the new entry goes in an existing block
RECURSIVE InsertPoint(_, _, _)
InsertPoint(lines, j, insertLine) ==
    IF ~(j < Len(lines) /\ HasPrefix(At0(lines, j), <<" ", " ">>)) THEN insertLine
    ELSE IF Contains(At0(lines, j), SRemaining) \/ Contains(At0(lines, j), STotal) THEN j
    ELSE IF HasPrefix(At0(lines, j), <<" ", " ", Bullet>>)
         THEN InsertPoint(lines, j + 1, j + 1)
    ELSE InsertPoint(lines, j + 1, insertLine)

\* a mutant of InsertAt: the new lines take the place of the line at n
InsertAtOverwrites(lines, n, new) == SubSeq(lines, 1, n) \o new \o From(lines, n + 2)

\* a slice lines[:n] followed by the new lines and lines[n:]
InsertAt(lines, n, new) == SubSeq(lines, 1, n) \o new \o From(lines, n + 1)

\* addTimeEntry over a file system fs: the error (or "" for none), the
\* file system afterwards, and where the entry line went
addTimeEntry(fs, state, duration) ==
    LET lines  == fs[state.FilePath]
        entry  == [Date        |-> state.StartTime,
                   StartTime   |-> state.StartTime,
                   EndTime     |-> Time(state.StartTime.t + duration, state.StartTime.off),
                   Duration    |-> duration,
                   Description |-> SWorkSession]
        logAt  == FindTimeLog(lines, state.TaskLine, state.TaskLine)
        exists == logAt # -1
        insertLine == IF exists THEN InsertPoint(lines, logAt + 1, logAt + 1)
                      ELSE state.TaskLine
        new    == IF exists THEN <<formatTimeEntry(entry)>>
                  ELSE <<<<" ", " ">> \o STimeLog, formatTimeEntry(entry)>>
    IN  IF lines = Missing
        THEN [err |-> "FileReadError", fs |-> fs, at |-> 0, added |-> 0]
        ELSE IF state.TaskLine > Len(lines)
        THEN [err |-> "LineOutOfRange", fs |-> fs, at |-> 0, added |-> 0]
        ELSE [err   |-> "",
              fs    |-> [fs EXCEPT ![state.FilePath] = InsertAt(lines, insertLine, new)],
              at    |-> insertLine + Len(new),
              added |-> Len(new)]

(***************************************************************************)
(* Timer State Machine.                                                    *)
(***************************************************************************)
\* the zero time.Time
ZeroTime == Time(0, 0)

\* the note files of the watched directories, in the order the directory
\* walk visits them
ScanOrder == <<"daily/a.md", "projects/p.md">>

Paths == {ScanOrder[i] : i \in 1..Len(ScanOrder)}

\* the tasks of all files from the k-th on, in scan order
RECURSIVE AllTasksFrom(_, _)
AllTasksFrom(fs, k) ==
    IF k > Len(ScanOrder) THEN <<>>
    ELSE extractTasks(fs, ScanOrder[k]) \o AllTasksFrom(fs, k + 1)

\* a mutant of BestMatch: the first match is taken, exact or not
BestMatchFirst(matches, searchText) ==
    IF Len(matches) = 0 THEN <<>> ELSE <<matches[1]>>

\* "Multiple matches - return the best one (exact match preferred)"
BestMatch(matches, searchText) ==
    LET exact == {i \in 1..Len(matches) : EqualFold(matches[i].Text, searchText)}
    IN  IF Len(matches) = 0 THEN <<>>
        ELSE IF Len(matches) = 1 THEN <<matches[1]>>
        ELSE IF exact # {}
             THEN <<matches[CHOOSE i \in exact : \A j \in exact : i <= j]>>
        ELSE <<matches[1]>>

findTaskByText(fs, searchText) ==
    BestMatch(SelectSeq(AllTasksFrom(fs, 1),
                        LAMBDA task : Contains(ToLower(task.Text), ToLower(searchText))),
              searchText)

\* time.Since(t) at instant t0
Since(t, t0) == t0 - t.t

\* what a command did: its error ("" for none), the state file and the
\* note files afterwards, the entry it logged (if any), and the file
\* writes and removals it performed, in order
Outcome(err, tm, fs, logged, ops) ==
    [err |-> err, timer |-> tm, fs |-> fs, logged |-> logged, ops |-> ops]

\* a mutant of Elapsed: the open pause interval is not subtracted
ElapsedCountsOpenPause(state, t0) == Since(state.StartTime, t0) - state.TotalPaused

\* "Calculate total elapsed time" of stopTimer
Elapsed(state, t0) ==
    LET elapsed == Since(state.StartTime, t0) - state.TotalPaused
    IN  IF state.IsPaused THEN elapsed - Since(state.PausedTime, t0) ELSE elapsed

\* the entry a stop has logged: the timer state it stopped, the elapsed
\* time it passed to the writer, the line of the file that now holds the
\* entry and the number of lines the writer added
Logged(state, elapsed, add) ==
    [state |-> state, elapsed |-> elapsed, at |-> add.at, added |-> add.added]

\* the state startTimer saves for a task
StateFor(task, t0, off) ==
    [IsActive    |-> TRUE,
     TaskText    |-> task.Text,
     FilePath    |-> task.FilePath,
     TaskLine    |-> task.Line,
     StartTime   |-> Time(t0, off),
     IsPaused    |-> FALSE,
     PausedTime  |-> ZeroTime,
     TotalPaused |-> 0]

\* stopTimer once the writer has run: the state file is removed only if the
\* writer has succeeded
StopOutcome(fs, tm, elapsed, add) ==
    IF add.err # "" THEN Outcome(add.err, tm, fs, <<>>, <<>>)
    ELSE Outcome("", NoState, add.fs, <<Logged(tm[1], elapsed, add)>>,
                 <<"WriteNote", "RemoveState">>)

\* a mutant of stopTimer: the state file is removed whether or not the
\* writer succeeded
stopTimerAlwaysClears(fs, tm, t0) ==
    LET state   == tm[1]
        elapsed == Elapsed(state, t0)
        add     == addTimeEntry(fs, state, elapsed)
    IN  IF tm = NoState THEN Outcome("NoActiveTimer", tm, fs, <<>>, <<>>)
        ELSE IF ~state.IsActive THEN Outcome("NoActiveTimer", tm, fs, <<>>, <<>>)
        ELSE IF add.err # "" THEN Outcome(add.err, NoState, fs, <<>>, <<"RemoveState">>)
        ELSE Outcome("", NoState, add.fs, <<Logged(state, elapsed, add)>>,
                     <<"WriteNote", "RemoveState">>)

stopTimer(fs, tm, t0) ==
    IF tm = NoState THEN Outcome("NoActiveTimer", tm, fs, <<>>, <<>>)
    ELSE IF ~tm[1].IsActive THEN Outcome("NoActiveTimer", tm, fs, <<>>, <<>>)
    ELSE StopOutcome(fs, tm, Elapsed(tm[1], t0),
                     addTimeEntry(fs, tm[1], Elapsed(tm[1], t0)))

\* startTimer once the task has been looked up
StartFound(stopped, found, t0) ==
    IF found = <<>>
    THEN Outcome("TaskNotFound", stopped.timer, stopped.fs, stopped.logged, stopped.ops)
    ELSE Outcome("", <<StateFor(found[1], t0, tz)>>, stopped.fs, stopped.logged,
                 stopped.ops \o <<"SaveState">>)

\* startTimer once any running timer has been stopped; a failure to stop
\* is ignored
StartAfter(stopped, t0, taskText) ==
    StartFound(stopped, findTaskByText(stopped.fs, taskText), t0)

\* a mutant of startTimer: the new state is written without stopping the
\* timer that is running
startTimerNoStop(fs, tm, t0, taskText) ==
    StartAfter(Outcome("", tm, fs, <<>>, <<>>), t0, taskText)

\* a mutant of startTimer: a failure of the implicit stop, other than there
\* being no timer to stop, ends the command
startTimerStopMustSucceed(fs, tm, t0, taskText) ==
    IF stopTimer(fs, tm, t0).err \in {"", "NoActiveTimer"}
    THEN StartAfter(stopTimer(fs, tm, t0), t0, taskText)
    ELSE stopTimer(fs, tm, t0)

\* a mutant of startTimer: the task is looked up first, and nothing is
\* stopped when it is not found
startTimerFindsFirst(fs, tm, t0, taskText) ==
    IF findTaskByText(fs, taskText) = <<>>
    THEN Outcome("TaskNotFound", tm, fs, <<>>, <<>>)
    ELSE StartAfter(stopTimer(fs, tm, t0), t0, taskText)

startTimer(fs, tm, t0, taskText) ==
    StartAfter(stopTimer(fs, tm, t0), t0, taskText)

\* a mutant of pauseTimer: a paused timer is paused again
pauseTimerAgain(fs, tm, t0) ==
    LET state == tm[1]
    IN  IF tm = NoState THEN Outcome("NoActiveTimer", tm, fs, <<>>, <<>>)
        ELSE IF ~state.IsActive THEN Outcome("NoActiveTimer", tm, fs, <<>>, <<>>)
        ELSE Outcome("", <<[state EXCEPT !.IsPaused = TRUE, !.PausedTime = Time(t0, tz)]>>,
                     fs, <<>>, <<"SaveState">>)

\* a mutant of pauseTimer: the instant of the pause is not recorded
pauseTimerNoStamp(fs, tm, t0) ==
    LET state == tm[1]
    IN  IF tm = NoState THEN Outcome("NoActiveTimer", tm, fs, <<>>, <<>>)
        ELSE IF ~state.IsActive THEN Outcome("NoActiveTimer", tm, fs, <<>>, <<>>)
        ELSE IF state.IsPaused THEN Outcome("AlreadyPaused", tm, fs, <<>>, <<>>)
        ELSE Outcome("", <<[state EXCEPT !.IsPaused = TRUE]>>, fs, <<>>, <<"SaveState">>)

pauseTimer(fs, tm, t0) ==
    LET state == tm[1]
    IN  IF tm = NoState THEN Outcome("NoActiveTimer", tm, fs, <<>>, <<>>)
        ELSE IF ~state.IsActive THEN Outcome("NoActiveTimer", tm, fs, <<>>, <<>>)
        ELSE IF state.IsPaused THEN Outcome("AlreadyPaused", tm, fs, <<>>, <<>>)
        ELSE Outcome("", <<[state EXCEPT !.IsPaused = TRUE, !.PausedTime = Time(t0, tz)]>>,
                     fs, <<>>, <<"SaveState">>)

\* a mutant of resumeTimer: the pause that ends is not added to TotalPaused
resumeTimerForgetsPause(fs, tm, t0, taskText) ==
    LET state == tm[1]
    IN  IF tm = NoState \/ ~state.IsActive THEN
            IF taskText = <<>> THEN Outcome("NothingToResume", tm, fs, <<>>, <<>>)
            ELSE startTimer(fs, tm, t0, taskText)
        ELSE IF ~state.IsPaused THEN Outcome("NotPaused", tm, fs, <<>>, <<>>)
        ELSE Outcome("", <<[state EXCEPT !.IsPaused = FALSE, !.PausedTime = ZeroTime]>>,
                     fs, <<>>, <<"SaveState">>)

resumeTimer(fs, tm, t0, taskText) ==
    LET state == tm[1]
    IN  IF tm = NoState \/ ~state.IsActive THEN
            IF taskText = <<>> THEN Outcome("NothingToResume", tm, fs, <<>>, <<>>)
            ELSE startTimer(fs, tm, t0, taskText)
        ELSE IF ~state.IsPaused THEN Outcome("NotPaused", tm, fs, <<>>, <<>>)
        ELSE Outcome("", <<[state EXCEPT !.TotalPaused = @ + Since(state.PausedTime, t0),
                                         !.IsPaused = FALSE,
                                         !.PausedTime = ZeroTime]>>,
                     fs, <<>>, <<"SaveState">>)

\* showTimerStatus prints; it writes nothing
showTimerStatus(fs, tm, t0) == Outcome("", tm, fs, <<>>, <<>>)

(***************************************************************************)
(* The timer commands as steps of the system.                              *)
(***************************************************************************)
MaxLogged == 2
MaxTicks  == 3

\* 2024-01-15 09:30:00 UTC, a Monday
StartOfRun == 14 * SecPerDay + 9 * SecPerHour + 30 * SecPerMin

\* how far the clock moves in one step
Deltas == {30}

TZOffsets == {0, SecPerHour}

SearchTexts == {<<"w","r","i","t","e">>, <<"F","i","x"," ","B","u","g">>, <<"n","o","t","h","i","n","g">>}

\* resume is given no text, or one
ResumeTexts == {<<>>, <<"w","r","i","t","e">>}

NoteA == << <<"#"," ","M","o","n","d","a","y">>,
            <<"-"," ","["," ","]"," ","W","r","i","t","e"," ","r","e","p","o","r","t">>,
            <<"-"," ","["," ","]"," ","F","i","x"," ","b","u","g">>,
            <<>> >>

NoteP == << <<"-"," ","["," ","]"," ","W","r","i","t","e"," ","t","e","s","t","s">>,
            <<" "," ","T","i","m","e"," ","l","o","g",":">>,
            <<" "," ","*"," ","2","0","2","4","-","0","1","-","1","2"," ","1","0",":","0","0","-","1","1",":","0","0"," ","(","1","h",")"," ","-"," ","W","o","r","k"," ","s","e","s","s","i","o","n">>,
            <<" "," ","R","e","m","a","i","n","i","n","g",":"," ","~","1","h">> >>

Active == timer # NoState /\ timer[1].IsActive
Running == Active /\ ~timer[1].IsPaused
Paused == Active /\ timer[1].IsPaused
Idle == ~Active

\* the record of a command: what it was given, the state file it found,
\* the Running time of the timer it found, and its outcome
Step(cmd, arg, out) ==
    [cmd |-> cmd, arg |-> arg, before |-> timer, ran |-> ran,
     err |-> out.err, logged |-> out.logged, ops |-> out.ops, kept |-> out.fs = files]

NoStep == [cmd |-> "none", arg |-> <<>>, before |-> NoState, ran |-> 0,
           err |-> "", logged |-> <<>>, ops |-> <<>>, kept |-> TRUE]

Init ==
    /\ files = [p \in Paths |-> IF p = "daily/a.md" THEN NoteA ELSE NoteP]
    /\ timer = NoState
    /\ now = StartOfRun
    /\ tz = SecPerHour
    /\ ran = 0
    /\ ticks = 0
    /\ nlogged = 0
    /\ last = NoStep
    /\ call = <<>>
    /\ ret = NotCalled

\* a command runs to completion: it leaves the state file and the note
\* files as its outcome says
Run(cmd, arg, out) ==
    /\ last.cmd = "none"
    /\ nlogged + Len(out.logged) <= MaxLogged
    /\ files' = out.fs
    /\ timer' = out.timer
    /\ last' = Step(cmd, arg, out)
    /\ nlogged' = nlogged + Len(out.logged)
    /\ ran' = IF out.timer # timer /\ out.timer # NoState
                 /\ out.timer[1].StartTime = Time(now, tz) /\ out.timer[1].TotalPaused = 0
                 /\ ~out.timer[1].IsPaused
              THEN 0 ELSE ran
    /\ UNCHANGED <<now, tz, ticks, call, ret>>

Start(taskText) == Run("start", taskText, startTimer(files, timer, now, taskText))

Pause == Run("pause", <<>>, pauseTimer(files, timer, now))

Resume(taskText) == Run("resume", taskText, resumeTimer(files, timer, now, taskText))

Stop == Run("stop", <<>>, stopTimer(files, timer, now))

Status == Run("status", <<>>, showTimerStatus(files, timer, now))

\* the process of the command exits
Exit ==
    /\ last.cmd # "none"
    /\ last' = NoStep
    /\ UNCHANGED <<files, timer, now, tz, ran, ticks, nlogged, call, ret>>

\* time passes between two commands
Tick(d) ==
    /\ last.cmd = "none"
    /\ ticks < MaxTicks
    /\ now' = now + d
    /\ ticks' = ticks + 1
    /\ ran' = IF Running THEN ran + d ELSE ran
    /\ UNCHANGED <<files, timer, tz, nlogged, last, call, ret>>

\* the user removes the note file of the task being timed
DeleteFile(p) ==
    /\ last.cmd = "none"
    /\ Active /\ timer[1].FilePath = p
    /\ files[p] # Missing
    /\ files' = [files EXCEPT ![p] = Missing]
    /\ UNCHANGED <<timer, now, tz, ran, ticks, nlogged, last, call, ret>>

Next ==
    \/ \E s \in SearchTexts : Start(s)
    \/ Pause
    \/ \E s \in ResumeTexts : Resume(s)
    \/ Stop
    \/ Status
    \/ Exit
    \/ \E d \in Deltas : Tick(d)
    \/ \E p \in Paths : DeleteFile(p)

Spec == Init /\ [][Next]_vars

(***************************************************************************)
(* Claims about the timer.                                                 *)
(***************************************************************************)
\* the line of the note file that holds the entry a stop has logged
LoggedLine == files[last.logged[1].state.FilePath][last.logged[1].at]

\* C1: whenever a stop logs an entry (the timer having been Running or
\* Paused, after any number of pause/resume cycles), the elapsed time it
\* passes to the writer is the time the timer spent Running, and the entry
\* line written to the file shows that time, in whole minutes.
C1_LoggedTimeIsRunningTime ==
    last.logged # <<>> =>
        /\ last.logged[1].elapsed = last.ran
        /\ Contains(LoggedLine, <<"(">> \o formatDuration(last.ran) \o <<")">>)

\* a stop issued while Paused, after a completed pause/resume cycle, of a
\* timer that has been Running for some time
C1_Witness ==
    /\ last.cmd = "stop" /\ last.logged # <<>>
    /\ last.logged[1].state.IsPaused
    /\ last.logged[1].state.TotalPaused > 0
    /\ last.ran > 0

\* the state start writes for a task it has found
FreshState(tm) ==
    /\ tm # NoState
    /\ tm[1].IsActive /\ ~tm[1].IsPaused
    /\ tm[1].StartTime = Time(now, tz) /\ tm[1].TotalPaused = 0

StartWhileActive == last.cmd = "start" /\ last.before # NoState

\* what C2 describes: the old timer's time is logged to its task's file, its
\* state is removed, and only then the new state is written
LogsThenStarts ==
    /\ last.logged # <<>>
    /\ last.logged[1].state = last.before[1]
    /\ last.logged[1].elapsed = last.ran
    /\ LoggedLine = formatTimeEntry(
           [Date        |-> last.before[1].StartTime,
            StartTime   |-> last.before[1].StartTime,
            EndTime     |-> Time(last.before[1].StartTime.t + last.ran, tz),
            Duration    |-> last.ran,
            Description |-> SWorkSession])
    /\ IF last.err = ""
       THEN last.ops = <<"WriteNote", "RemoveState", "SaveState">> /\ FreshState(timer)
       ELSE last.ops = <<"WriteNote", "RemoveState">> /\ timer = NoState

\* C2 as stated: every start issued while a timer is active logs the first
\* timer's time, clears its state and then writes the new Running state.
C2_Original == StartWhileActive => LogsThenStarts

\* C2, amended: start issued while a timer is active logs the first timer's
\* elapsed time to its task's file, removes its state and then writes the
\* new Running state, provided the writer succeeds; when the writer fails
\* (the note file cannot be read) nothing is logged, no file is changed, the
\* old state is not removed, and the new state, if a task is found,
\* overwrites it.  The state file never holds more than one timer.
C2_StartStopsFirst ==
    /\ Len(timer) <= 1
    /\ StartWhileActive =>
         IF files[last.before[1].FilePath] # Missing
         THEN LogsThenStarts
         ELSE /\ last.logged = <<>> /\ last.kept
              /\ IF last.err = ""
                 THEN last.ops = <<"SaveState">> /\ FreshState(timer)
                 ELSE last.ops = <<>> /\ timer = last.before

\* a start issued some time after another start, that found its task
C2_Witness ==
    /\ StartWhileActive /\ last.err = ""
    /\ last.logged # <<>> /\ last.ran > 0
    /\ timer[1].TaskText # last.before[1].TaskText

StopWhileActive == last.cmd = "stop" /\ last.before # NoState

\* C9 as stated: after stop on an active timer the state is deleted and the
\* system is Idle, whether the writer succeeded or failed.
C9_Original == StopWhileActive => timer = NoState /\ Idle

\* C9, amended: after stop on an active timer the state is deleted and the
\* system is Idle if the writer succeeded; if the writer failed, stop fails
\* with the writer's error, changes no file and leaves the persisted state
\* as it was, so the timer stays active.
C9_StopClearsOnSuccess ==
    StopWhileActive =>
        IF last.err = ""
        THEN timer = NoState /\ Idle /\ last.logged # <<>>
        ELSE /\ files[last.before[1].FilePath] = Missing
             /\ timer = last.before /\ Active /\ last.kept /\ last.logged = <<>>

\* a stop whose writer failed
C9_Witness == StopWhileActive /\ last.err = "FileReadError"

\* C10: pause fails with NoActiveTimer when Idle and with AlreadyPaused when
\* Paused, changing neither the persisted state nor any note file; when
\* Running it sets pausedAt = now and isPaused, and changes nothing else of
\* the state (startTime, totalPaused, taskText, filePath, taskLine).
C10_Pause ==
    last.cmd = "pause" =>
        /\ last.kept
        /\ IF last.before = NoState
           THEN last.err = "NoActiveTimer" /\ timer = last.before
           ELSE IF last.before[1].IsPaused
           THEN last.err = "AlreadyPaused" /\ timer = last.before
           ELSE /\ last.err = ""
                /\ timer = <<[last.before[1] EXCEPT !.IsPaused = TRUE,
                                                    !.PausedTime = Time(now, tz)]>>
                /\ Paused

\* a pause refused because the timer is paused already, some time after
\* the first pause
C10_Witness ==
    /\ last.cmd = "pause" /\ last.err = "AlreadyPaused"
    /\ timer[1].PausedTime.t < now
(***************************************************************************)
(* The Time-Log Writer on its own: a timer state saved by start for a task *)
(* of a note, and the note as it is when the writer runs.                  *)
(***************************************************************************)
NoteQ == << <<"-"," ","["," ","]"," ","D","e","p","l","o","y">>,
            <<" "," ","T","i","m","e"," ","l","o","g",":">>,
            <<" "," ","*"," ","2","0","2","4","-","0","1","-","1","2"," ","1","0",":","0","0","-","1","1",":","0","0"," ","(","1","h",")"," ","-"," ","W","o","r","k"," ","s","e","s","s","i","o","n">>,
            <<"-"," ","["," ","]"," ","R","e","v","i","e","w">>,
            <<"n","o","t","e","s">> >>

NoteS == << <<"-"," ","["," ","]"," ","S","o","l","o">> >>

\* a task without a time log, followed at once by a task that has one
NoteT == << <<"-"," ","["," ","]"," ","D","r","a","f","t">>,
            <<"-"," ","["," ","]"," ","D","e","p","l","o","y">>,
            <<" "," ","T","i","m","e"," ","l","o","g",":">>,
            <<" "," ","*"," ","2","0","2","4","-","0","1","-","1","2"," ","1","0",":","0","0","-","1","1",":","0","0"," ","(","1","h",")"," ","-"," ","W","o","r","k"," ","s","e","s","s","i","o","n">>,
            <<" "," ","T","o","t","a","l",":"," ","1","h">> >>

WriterNotes == {NoteA, NoteP, NoteQ, NoteS, NoteT}

\* 2024-01-15 09:30:00 and 22:50:00 UTC
WriterStarts == {StartOfRun, 14 * SecPerDay + 22 * SecPerHour + 50 * SecPerMin}

WriterElapsed == {0, 30, 45 * SecPerMin, 75 * SecPerMin}

WriterPath == "daily/a.md"

\* the elements of a sequence
Elements(seq) == {seq[i] : i \in 1..Len(seq)}

WriterInit ==
    \E z \in TZOffsets, orig \in WriterNotes, cur \in WriterNotes \cup {Missing},
       t \in WriterStarts, d \in WriterElapsed :
        /\ tz = z
        /\ \E task \in Elements(extractContent(orig, WriterPath)) :
            LET state == StateFor(task, t, z)
                fs    == [p \in Paths |-> IF p = WriterPath THEN cur ELSE NoteP]
            IN  /\ files = fs
                /\ timer = <<state>>
                /\ call = <<[fs |-> fs, state |-> state, duration |-> d]>>
        /\ now = t + d
        /\ ran = d
        /\ ticks = 0
        /\ nlogged = 0
        /\ last = NoStep
        /\ ret = NotCalled

\* addTimeEntry(state, duration) runs and writes the file
AddEntry ==
    /\ call # <<>>
    /\ ret = NotCalled
    /\ LET r == addTimeEntry(files, call[1].state, call[1].duration)
       IN  /\ files' = r.fs
           /\ ret' = <<r>>
    /\ UNCHANGED <<timer, now, tz, ran, ticks, nlogged, last, call>>

SpecWriter == WriterInit /\ [][AddEntry]_vars
(***************************************************************************)
(* Claims about the Time-Log Writer.                                       *)
(***************************************************************************)
\* the writer has run and succeeded
Written == ret # NotCalled /\ ret[1].err = ""

\* the entry addTimeEntry builds from its arguments
WrittenEntry ==
    [Date        |-> call[1].state.StartTime,
     StartTime   |-> call[1].state.StartTime,
     EndTime     |-> Time(call[1].state.StartTime.t + call[1].duration,
                          call[1].state.StartTime.off),
     Duration    |-> call[1].duration,
     Description |-> SWorkSession]

\* the file the writer was given has a task line at taskLine
TaskAtTaskLine == TaskMatch(call[1].fs[WriterPath][call[1].state.TaskLine]).ok

\* the tasks the re-extracted file yields at taskLine
ReExtracted ==
    SelectSeq(extractTasks(files, WriterPath),
              LAMBDA task : task.Line = call[1].state.TaskLine)

\* C3 as stated: after addTimeEntry succeeds for the task at taskLine,
\* re-extracting the file yields that task with the new entry among its
\* timeEntries, its duration the elapsed time in whole minutes and its
\* description "Work session".
C3_Original ==
    Written /\ TaskAtTaskLine =>
        /\ Len(ReExtracted) = 1
        /\ \E i \in 1..Len(ReExtracted[1].TimeEntries) :
              /\ ReExtracted[1].TimeEntries[i].Duration
                     = Quo(call[1].duration, SecPerMin) * SecPerMin
              /\ ReExtracted[1].TimeEntries[i].Description = SWorkSession

\* C4: addTimeEntry changes the target file only by inserting lines, one
\* entry line or a "Time log:" line followed by one entry line: the lines
\* before and after the inserted ones are the original lines (so the joined
\* content without them is the original content), no other file changes,
\* and a failed call changes nothing.
C4_OnlyInserts ==
    ret # NotCalled =>
        LET r   == ret[1]
            old == call[1].fs[WriterPath]
            new == files[WriterPath]
        IN  /\ \A q \in Paths \ {WriterPath} : files[q] = call[1].fs[q]
            /\ IF r.err # "" THEN files = call[1].fs
               ELSE /\ r.added \in {1, 2}
                    /\ Len(new) = Len(old) + r.added
                    /\ SubSeq(new, 1, r.at - r.added) \o From(new, r.at + 1) = old
                    /\ new[r.at] = formatTimeEntry(WrittenEntry)
                    /\ r.added = 2 => new[r.at - 1] = <<" ", " ">> \o STimeLog

\* an entry line inserted into an existing block, with lines after it
C4_Witness ==
    /\ Written /\ ret[1].added = 1
    /\ ret[1].at < Len(files[WriterPath])
    /\ ret[1].at > call[1].state.TaskLine + 1
(***************************************************************************)
(* Time report.                                                            *)
(***************************************************************************)
\* t.AddDate(0, 1, 0) of the first day of a month
AddMonth(d) == IF d.m = 12 THEN [y |-> d.y + 1, m |-> 1, d |-> d.d]
               ELSE [y |-> d.y, m |-> d.m + 1, d |-> d.d]

\* a location: offset early (seconds east of UTC) before the instant switch,
\* offset late from it on; a zone without transitions has early = late
Location(early, switch, late) == [early |-> early, switch |-> switch, late |-> late]

\* Location.lookup: the offset in force at instant t
OffsetAt(loc, t) == IF t < loc.switch THEN loc.early ELSE loc.late

\* time.Date(y, m, d, 0, 0, sec, 0, loc): the wall reading is looked up as if
\* it were UTC, and looked up again when that offset is not in force there
DateIn(loc, date, sec) ==
    LET unix   == DayNumber(date) * SecPerDay + sec
        offset == OffsetAt(loc, unix)
        utc    == unix - offset
    IN  IF offset = 0 THEN unix
        ELSE IF (utc < loc.switch) # (unix < loc.switch) THEN unix - OffsetAt(loc, utc)
        ELSE unix - offset

\* the switch on the period: the window [StartDate, EndDate) at instant t0
\* in the location loc
PeriodWindowIn(period, t0, loc) ==
    LET p       == ToLower(period)
        wall    == Wall(t0, OffsetAt(loc, t0))
        today   == DateOf(wall)
        weekday == IF Weekday(wall) = 0 THEN 7 ELSE Weekday(wall)
        back    == t0 - (weekday - 1) * SecPerDay
        monday  == DateOf(Wall(back, OffsetAt(loc, back)))
        first   == [today EXCEPT !.d = 1]
    IN  IF p = <<"t","o","d","a","y">>
        THEN [ok |-> TRUE, StartDate |-> DateIn(loc, today, 0),
              EndDate |-> DateIn(loc, today, 0) + SecPerDay]
        ELSE IF p = <<"w","e","e","k">>
        THEN [ok |-> TRUE, StartDate |-> DateIn(loc, monday, 0),
              EndDate |-> DateIn(loc, monday, 0) + 7 * SecPerDay]
        ELSE IF p = <<"m","o","n","t","h">>
        THEN [ok |-> TRUE, StartDate |-> DateIn(loc, first, 0),
              EndDate |-> DateIn(loc, AddMonth(first), 0)]
        ELSE [ok |-> FALSE, StartDate |-> 0, EndDate |-> 0]

\* the window when time.Local keeps the offset tz throughout
PeriodWindow(period, t0) == PeriodWindowIn(period, t0, Location(tz, 0, tz))

RECURSIVE SumDurations(_)
SumDurations(entries) ==
    IF entries = <<>> THEN 0 ELSE entries[1].Duration + SumDurations(Tail(entries))

RECURSIVE SumTotals(_)
SumTotals(rows) ==
    IF rows = <<>> THEN 0 ELSE rows[1].TotalTime + SumTotals(Tail(rows))

\* sort.Slice with less(i, j) = Tasks[i].TotalTime > Tasks[j].TotalTime; a
\* slice of at most twelve elements is insertion-sorted
RECURSIVE InsertByTotal(_, _)
InsertByTotal(sorted, row) ==
    IF sorted = <<>> THEN <<row>>
    ELSE IF row.TotalTime > sorted[Len(sorted)].TotalTime
         THEN Append(InsertByTotal(SubSeq(sorted, 1, Len(sorted) - 1), row),
                     sorted[Len(sorted)])
    ELSE Append(sorted, row)

RECURSIVE SortByTotal(_)
SortByTotal(rows) ==
    IF rows = <<>> THEN <<>>
    ELSE InsertByTotal(SortByTotal(SubSeq(rows, 1, Len(rows) - 1)), rows[Len(rows)])

\* the report over the tasks of the tree, for a window
ReportOver(win, tasks) ==
    LET InPeriod(entry) == entry.Date.t >= win.StartDate /\ entry.Date.t < win.EndDate
        row(task)  == [TaskInfo  |-> task,
                       Entries   |-> SelectSeq(task.TimeEntries, InPeriod),
                       TotalTime |-> SumDurations(SelectSeq(task.TimeEntries, InPeriod))]
        rows       == SelectSeq([i \in 1..Len(tasks) |-> row(tasks[i])],
                                LAMBDA r : Len(r.Entries) > 0)
    IN  IF ~win.ok
        THEN [err |-> "InvalidPeriod", Tasks |-> <<>>, TotalTime |-> 0,
              StartDate |-> 0, EndDate |-> 0]
        ELSE [err |-> "", Tasks |-> SortByTotal(rows),
              TotalTime |-> SumTotals(rows),
              StartDate |-> win.StartDate, EndDate |-> win.EndDate]

\* collectTimeData when time.Local is the location loc
collectTimeDataIn(fs, period, t0, loc) ==
    ReportOver(PeriodWindowIn(period, t0, loc), AllTasksFrom(fs, 1))

collectTimeData(fs, period, t0) ==
    collectTimeDataIn(fs, period, t0, Location(tz, 0, tz))

(***************************************************************************)
(* The report on its own: a notes tree with one logged task in daily/ and, *)
(* possibly, another in projects/, read at some instant in some zone.      *)
(***************************************************************************)
ReportDates == {[y |-> 2024, m |-> 1, d |-> 15], [y |-> 2024, m |-> 1, d |-> 14],
                [y |-> 2024, m |-> 1, d |-> 8]}

\* the documented form indents the entries by two spaces
Documented == <<" ", " ">>

ReportIndents == {Documented, <<>>}

\* Monday 2024-01-15 09:30:00 UTC and Sunday 2024-01-21 23:30:00 UTC
ReportNows == {StartOfRun, 20 * SecPerDay + 23 * SecPerHour + 30 * SecPerMin}

ReportZones == {0, SecPerHour, 0 - 5 * SecPerHour}

ReportPeriods == {<<"t","o","d","a","y">>, <<"w","e","e","k">>, <<"M","o","n","t","h">>, <<"y","e","a","r">>}

\* a task with a time log of two entries, of 1h and of 45m
ReportNote(indent, d1, d2) ==
    << <<"-"," ","["," ","]"," ","W","r","i","t","e"," ","r","e","p","o","r","t">>,
       <<" "," ","T","i","m","e"," ","l","o","g",":">>,
       indent \o <<Bullet, " ">> \o FormatDate(d1) \o <<" ","0","9",":","0","0","-","1","0",":","0","0"," ","(","1","h",")"," ","-"," ","D","r","a","f","t">>,
       indent \o <<Bullet, " ">> \o FormatDate(d2) \o <<" ","1","4",":","0","0","-","1","4",":","4","5"," ","(","4","5","m",")"," ","-"," ","R","e","v","i","e","w">> >>

NoteR == << <<"-"," ","["," ","]"," ","P","l","a","n"," ","s","p","r","i","n","t">>,
            <<"T","i","m","e"," ","l","o","g",":">>,
            <<"*"," ","2","0","2","4","-","0","1","-","1","5"," ","1","0",":","0","0","-","1","2",":","0","0"," ","(","2","h",")"," ","-"," ","P","l","a","n","n","i","n","g">> >>

ReportInit ==
    \E z \in ReportZones, t \in ReportNows, period \in ReportPeriods,
       indent \in ReportIndents, d1 \in ReportDates, d2 \in ReportDates,
       other \in {Missing, NoteR} :
        /\ tz = z
        /\ now = t
        /\ files = [p \in Paths |-> IF p = "daily/a.md" THEN ReportNote(indent, d1, d2)
                                     ELSE other]
        /\ call = <<[period |-> period, indent |-> indent, d1 |-> d1, d2 |-> d2]>>
        /\ timer = NoState
        /\ ran = 0
        /\ ticks = 0
        /\ nlogged = 0
        /\ last = NoStep
        /\ ret = NotCalled

\* collectTimeData(period) runs
Report ==
    /\ call # <<>>
    /\ ret = NotCalled
    /\ ret' = <<collectTimeData(files, call[1].period, now)>>
    /\ UNCHANGED <<files, timer, now, tz, ran, ticks, nlogged, last, call>>

SpecReport == ReportInit /\ [][Report]_vars

(***************************************************************************)
(* Claims about the report.                                                *)
(***************************************************************************)
\* the tree holds one task, whose time log is in the documented form and
\* has two entries dated today
OneTaskLoggedToday ==
    /\ files["projects/p.md"] = Missing
    /\ call[1].indent = Documented
    /\ call[1].d1 = DateOf(Wall(now, tz))
    /\ call[1].d2 = DateOf(Wall(now, tz))

\* C5 as stated: collectTimeData("today") over a tree with one task whose
\* time log, in the documented form, has two entries dated today that total
\* 1h45m returns TotalTime = 1h45m, exactly one task, and both sessions
\* listed for it.
C5_Original ==
    ret # NotCalled /\ call[1].period = <<"t","o","d","a","y">> /\ OneTaskLoggedToday =>
        /\ ret[1].err = ""
        /\ ret[1].TotalTime = SecPerHour + 45 * SecPerMin
        /\ Len(ret[1].Tasks) = 1
        /\ Len(ret[1].Tasks[1].Entries) = 2
(***************************************************************************)
(* Task Filter.                                                            *)
(***************************************************************************)
matchesPriorityFilter(taskPriority, filterPriority) ==
    EqualFold(taskPriority, filterPriority)

\* the byte of a character of a formatted date or of a file path
ByteOf(c) ==
    IF c = "-" THEN 45 ELSE IF c = "." THEN 46 ELSE IF c = "/" THEN 47
    ELSE IF IsDigit(c) THEN 48 + DigitVal(c)
    ELSE 96 + (CHOOSE i \in 1..26 : Lower[i] = c)

\* a < b of two Go strings made of such characters: the bytewise order
RECURSIVE StringLess(_, _)
StringLess(a, b) ==
    IF b = <<>> THEN FALSE
    ELSE IF a = <<>> THEN TRUE
    ELSE IF a[1] # b[1] THEN ByteOf(a[1]) < ByteOf(b[1])
    ELSE StringLess(Tail(a), Tail(b))

\* the text of a file path: the path below the base directory notes/
PathText(p) ==
    IF p = "daily/a.md" THEN <<"n","o","t","e","s","/","d","a","i","l","y","/","a",".","m","d">>
    ELSE IF p = "meetings/m.md" THEN <<"n","o","t","e","s","/","m","e","e","t","i","n","g","s","/","m",".","m","d">>
    ELSE <<"n","o","t","e","s","/","p","r","o","j","e","c","t","s","/","p",".","m","d">>

\* the first block of matchesFilters: some task tag is some filter tag
HasMatchingTag(task, filters) ==
    \E i \in 1..Len(filters.Tags) : \E j \in 1..Len(task.Tags) :
        EqualFold(task.Tags[j], filters.Tags[i])

\* a mutant of matchesFilters: overdue and today are applied one after the
\* other even when both are set
matchesFiltersFocusAnd(task, filters, t0) ==
    LET taskDateStr == FormatDate(task.DueDate)
        todayStr    == FormatDate(DateOf(Wall(t0, tz)))
    IN  IF Len(filters.Tags) > 0 /\ ~HasMatchingTag(task, filters) THEN FALSE
        ELSE IF /\ filters.Priority # <<>>
                /\ ~matchesPriorityFilter(getPriorityLevel(detectPriority(task.Text)),
                                          filters.Priority) THEN FALSE
        ELSE IF /\ filters.Overdue
                /\ (task.DueDate = NoDate \/ ~StringLess(taskDateStr, todayStr))
             THEN FALSE
        ELSE IF /\ filters.Today
                /\ (task.DueDate = NoDate \/ taskDateStr # todayStr)
             THEN FALSE
        ELSE IF /\ filters.FilePattern # <<>>
                /\ ~Contains(ToLower(PathText(task.FilePath)), ToLower(filters.FilePattern))
             THEN FALSE
        ELSE TRUE

matchesFilters(task, filters, t0) ==
    LET taskDateStr == FormatDate(task.DueDate)
        todayStr    == FormatDate(DateOf(Wall(t0, tz)))
        isOverdue   == StringLess(taskDateStr, todayStr)
        isToday     == taskDateStr = todayStr
    IN  IF Len(filters.Tags) > 0 /\ ~HasMatchingTag(task, filters) THEN FALSE
        ELSE IF /\ filters.Priority # <<>>
                /\ ~matchesPriorityFilter(getPriorityLevel(detectPriority(task.Text)),
                                          filters.Priority) THEN FALSE
        ELSE IF /\ filters.Overdue /\ filters.Today
                /\ (task.DueDate = NoDate \/ (~isOverdue /\ ~isToday))
             THEN FALSE
        ELSE IF /\ ~(filters.Overdue /\ filters.Today) /\ filters.Overdue
                /\ (task.DueDate = NoDate \/ ~StringLess(taskDateStr, todayStr))
             THEN FALSE
        ELSE IF /\ ~(filters.Overdue /\ filters.Today) /\ filters.Today
                /\ (task.DueDate = NoDate \/ taskDateStr # todayStr)
             THEN FALSE
        ELSE IF /\ filters.FilePattern # <<>>
                /\ ~Contains(ToLower(PathText(task.FilePath)), ToLower(filters.FilePattern))
             THEN FALSE
        ELSE TRUE

filterTasks(tasks, filters, t0) ==
    IF /\ Len(filters.Tags) = 0 /\ filters.Priority = <<>> /\ ~filters.Overdue
       /\ ~filters.Today /\ filters.FilePattern = <<>>
    THEN tasks
    ELSE SelectSeq(tasks, LAMBDA task : matchesFilters(task, filters, t0))
(***************************************************************************)
(* The filter on its own: the tasks of a notes tree, a filter              *)
(* configuration, an instant and a zone.                                   *)
(***************************************************************************)
FilterNoteA == << <<"-"," ","["," ","]"," ","P","a","y"," ","r","e","n","t"," ","d","u","e",":","2","0","2","4","-","0","1","-","1","4"," ","#","h","o","m","e">>,
                  <<"-"," ","["," ","]"," ","C","a","l","l"," ","b","a","n","k"," ","d","u","e",":","2","0","2","4","-","0","1","-","1","5"," ","!","!">>,
                  <<"-"," ","["," ","]"," ","B","o","o","k"," ","t","r","i","p"," ","d","u","e",":","2","0","2","4","-","0","1","-","1","6"," ","#","H","o","m","e"," ","u","r","g","e","n","t">>,
                  <<"-"," ","["," ","]"," ","W","a","t","e","r"," ","p","l","a","n","t","s"," ","#","h","o","m","e">> >>

FilterNoteP == << <<"-"," ","["," ","]"," ","S","h","i","p"," ","r","e","l","e","a","s","e"," ","d","u","e",":","2","0","2","4","-","0","1","-","1","5"," ","#","w","o","r","k"," ","a","s","a","p">>,
                  <<"-"," ","["," ","]"," ","W","r","i","t","e"," ","d","o","c","s"," ","d","u","e",":","2","0","2","4","-","1","3","-","0","1"," ","#","w","o","r","k">>,
                  <<"-"," ","["," ","]"," ","O","l","d"," ","a","u","d","i","t"," ","d","u","e",":","2","0","2","3","-","1","2","-","3","1"," ","#","w","o","r","k">> >>

\* 2024-01-14 23:30, 2024-01-15 09:30 and 2024-01-16 02:00 UTC
FilterNows == {13 * SecPerDay + 23 * SecPerHour + 30 * SecPerMin, StartOfRun,
               15 * SecPerDay + 2 * SecPerHour}

FilterTags == {<<>>, <<<<"#","h","o","m","e">>>>, <<<<"#","W","O","R","K">>, <<"#","h","o","m","e">>>>}

FilterPriorities == {<<>>, <<"h","i","g","h">>, <<"L","O","W">>}

FilterPatterns == {<<>>, <<"D","A","I","L","Y">>, <<"p","r","o","j">>}

FilterInit ==
    \E z \in ReportZones, t \in FilterNows, tags \in FilterTags,
       priority \in FilterPriorities, overdue \in BOOLEAN, today \in BOOLEAN,
       pattern \in FilterPatterns :
        /\ tz = z
        /\ now = t
        /\ files = [p \in Paths |-> IF p = "daily/a.md" THEN FilterNoteA ELSE FilterNoteP]
        /\ call = <<[Tags |-> tags, Priority |-> priority, Overdue |-> overdue,
                     Today |-> today, FilePattern |-> pattern]>>
        /\ timer = NoState
        /\ ran = 0
        /\ ticks = 0
        /\ nlogged = 0
        /\ last = NoStep
        /\ ret = NotCalled

\* filterTasks runs over the tasks of the tree
Filter ==
    /\ call # <<>>
    /\ ret = NotCalled
    /\ ret' = <<filterTasks(AllTasksFrom(files, 1), call[1], now)>>
    /\ UNCHANGED <<files, timer, now, tz, ran, ticks, nlogged, last, call>>

SpecFilter == FilterInit /\ [][Filter]_vars

(***************************************************************************)
(* Claims about the filter.                                                *)
(***************************************************************************)
\* today's date where the program runs
LocalToday == DateOf(Wall(now, tz))

\* the task is due today or was due before today
DueByToday(task) ==
    task.DueDate # NoDate /\ DayNumber(task.DueDate) <= DayNumber(LocalToday)

\* the tag, priority and file-pattern criteria of the filter, where given
OtherCriteria(task) ==
    /\ call[1].Tags # <<>> =>
          \E i \in 1..Len(call[1].Tags) : \E j \in 1..Len(task.Tags) :
              ToLower(task.Tags[j]) = ToLower(call[1].Tags[i])
    /\ call[1].Priority # <<>> =>
          ToLower(getPriorityLevel(detectPriority(task.Text))) = ToLower(call[1].Priority)
    /\ call[1].FilePattern # <<>> =>
          Contains(ToLower(PathText(task.FilePath)), ToLower(call[1].FilePattern))

FocusRequested == ret # NotCalled /\ call[1].Overdue /\ call[1].Today

\* C6: with overdue and today both set, filterTasks returns exactly the
\* tasks due before today or today (the union), in their order, without the
\* tasks that have no due date or a later one; the tag, priority and
\* file-pattern criteria given with them have to match as well.
C6_FocusIsUnion ==
    FocusRequested =>
        ret[1] = SelectSeq(AllTasksFrom(files, 1),
                           LAMBDA task : DueByToday(task) /\ OtherCriteria(task))

\* a focus request with a tag filter that returns an overdue task and a
\* task due today, and leaves tasks out
C6_Witness ==
    /\ FocusRequested /\ call[1].Tags # <<>>
    /\ \E i \in 1..Len(ret[1]) : DayNumber(ret[1][i].DueDate) < DayNumber(LocalToday)
    /\ \E i \in 1..Len(ret[1]) : ret[1][i].DueDate = LocalToday
    /\ \E i \in 1..Len(AllTasksFrom(files, 1)) :
          /\ AllTasksFrom(files, 1)[i].DueDate # NoDate
          /\ DayNumber(AllTasksFrom(files, 1)[i].DueDate) > DayNumber(LocalToday)
(***************************************************************************)
(* The Task Extractor on its own: a note of up to three lines.             *)
(***************************************************************************)
LineFixAuth == <<"-"," ","["," ","]"," ","F","i","x"," ","a","u","t","h"," ","b","u","g"," ","d","u","e",":","2","0","9","9","-","0","1","-","0","1"," ","e","s","t",":","2","h"," ","#","u","r","g","e","n","t">>

LineChecked == <<"-"," ","[","x","]"," ","F","i","x"," ","l","o","g","i","n"," ","v","a","l","i","d","a","t","i","o","n"," ","e","s","t",":","1","h"," ","#","b","a","c","k","e","n","d">>

LineCheckedUpper == <<" "," ","-"," ","[","X","]"," ","D","e","p","l","o","y"," ","h","o","t","f","i","x">>

LineEntry == <<"*"," ","2","0","2","4","-","0","1","-","1","5"," ","0","9",":","0","0","-","1","0",":","0","0"," ","(","1","h",")"," ","-"," ","D","r","a","f","t">>

LineTotal == <<" "," ","T","o","t","a","l",":"," ","1","h">>

\* a due token of the digit shape that is no calendar date
LineBadDue == <<"-"," ","["," ","]"," ","P","a","y"," ","r","e","n","t"," ","d","u","e",":","2","0","2","4","-","1","3","-","4","5">>

\* a Total: line that is not indented
LineTotalFlush == <<"T","o","t","a","l",":"," ","2","h">>

ExtractLines == {LineFixAuth, LineChecked, LineCheckedUpper, LineBadDue, LineTotalFlush,
                 <<"-"," ","["," ","]"," ","W","r","i","t","e"," ","r","e","p","o","r","t">>, <<" "," ","T","i","m","e"," ","l","o","g",":">>, LineEntry, LineTotal,
                 <<"-"," ","["," ","]"," ","P","l","a","n"," ","e","s","t",":","3","0","m">>}

MaxNoteLines == 3

\* a task whose Total: line is followed by a time log, and one whose time
\* log of two entries ends with the Total: line
NoteTotalFirst == << <<"-"," ","["," ","]"," ","W","r","i","t","e"," ","r","e","p","o","r","t">>, LineTotal, <<" "," ","T","i","m","e"," ","l","o","g",":">>, LineEntry >>

NoteTotalLast == << <<"-"," ","["," ","]"," ","W","r","i","t","e"," ","r","e","p","o","r","t">>, <<" "," ","T","i","m","e"," ","l","o","g",":">>, LineEntry, LineEntry, LineTotal >>

ExtractNotes == UNION {[1..n -> ExtractLines] : n \in 1..MaxNoteLines}
                \cup {NoteTotalFirst, NoteTotalLast}

ExtractInit ==
    \E z \in TZOffsets, note \in ExtractNotes :
        /\ tz = z
        /\ files = [p \in Paths |-> IF p = "daily/a.md" THEN note ELSE Missing]
        /\ call = <<"daily/a.md">>
        /\ timer = NoState
        /\ now = StartOfRun
        /\ ran = 0
        /\ ticks = 0
        /\ nlogged = 0
        /\ last = NoStep
        /\ ret = NotCalled

\* extractTasks(filePath) runs
Extract ==
    /\ call # <<>>
    /\ ret = NotCalled
    /\ ret' = <<extractTasks(files, call[1])>>
    /\ UNCHANGED <<files, timer, now, tz, ran, ticks, nlogged, last, call>>

SpecExtract == ExtractInit /\ [][Extract]_vars

(***************************************************************************)
(* Claims about the Task Extractor.                                        *)
(***************************************************************************)
\* the lines of the extracted file that are the given line
LinesThatAre(line) == {k \in 1..Len(files["daily/a.md"]) : files["daily/a.md"][k] = line}

\* the tasks extracted from line k
TasksOfLine(k) == SelectSeq(ret[1], LAMBDA task : task.Line = k)

\* C7 as stated: `- [ ] Fix auth bug due:2099-01-01 est:2h #urgent` yields
\* one task with text `Fix auth bug #urgent` (the due and estimate tokens
\* removed, the tag kept), due date 2099-01-01, estimate `2h` (the
\* non-whitespace token after est:), tags [#urgent] and priority high.
C7_Original ==
    ret # NotCalled =>
        \A k \in LinesThatAre(LineFixAuth) :
            /\ Len(TasksOfLine(k)) = 1
            /\ TasksOfLine(k)[1].Text = <<"F","i","x"," ","a","u","t","h"," ","b","u","g"," ","#","u","r","g","e","n","t">>
            /\ TasksOfLine(k)[1].DueDate = [y |-> 2099, m |-> 1, d |-> 1]
            /\ TasksOfLine(k)[1].Estimate = <<"2","h">>
            /\ TasksOfLine(k)[1].Tags = <<<<"#","u","r","g","e","n","t">>>>
            /\ getPriorityLevel(detectPriority(TasksOfLine(k)[1].Text)) = <<"h","i","g","h">>

\* a checked task line: `- [x]` or `- [X]` after optional whitespace
IsCheckedLine(line) ==
    \/ HasPrefix(TrimLeftSpace(line), <<"-"," ","[","x","]"," ">>)
    \/ HasPrefix(TrimLeftSpace(line), <<"-"," ","[","X","]"," ">>)

\* the line with its checkbox emptied
UncheckedLine(line) ==
    IF IsCheckedLine(line)
    THEN [line EXCEPT ![LeadingSpaces(line) + 4] = " "]
    ELSE line

\* the note with the boxes of its checked task lines emptied
Unchecked(content) == [k \in 1..Len(content) |-> UncheckedLine(content[k])]

\* C8 as stated: a line that begins, after optional whitespace, with `- [x]`
\* or `- [X]` followed by text is a task line exactly like `- [ ]`: the
\* note yields the tasks it would yield with those boxes empty, so a checked
\* line has its own task record and the time-log lines under it belong to
\* that record, not to the unchecked task before it.
C8_Original ==
    ret # NotCalled =>
        ret[1] = extractContent(Unchecked(files["daily/a.md"]), "daily/a.md")
(***************************************************************************)
(* Further claims about the timer commands.                                *)
(***************************************************************************)
\* what start does when given the state file and the note files a command
\* found; the note files are those of the present state when the command
\* kept them
StartOutcome == startTimer(files, last.before, now, last.arg)

\* C11: resume is determined by the timer state.  Idle with no search text:
\* it fails with NothingToResume and writes nothing.  Idle with a search
\* text: it does exactly what start does with that text.  Paused: it adds
\* now - pausedAt to totalPaused and the timer is Running for the same task,
\* whatever the search text.  Running: it fails with NotPaused and leaves
\* the state as it was.
C11_Resume ==
    last.cmd = "resume" =>
        IF last.before = NoState
        THEN IF last.arg = <<>>
             THEN /\ last.err = "NothingToResume" /\ last.ops = <<>>
                  /\ timer = NoState /\ last.kept
             ELSE /\ last.kept
                  /\ last.err = StartOutcome.err /\ timer = StartOutcome.timer
                  /\ last.ops = StartOutcome.ops /\ last.logged = StartOutcome.logged
                  /\ (last.err = "" => FreshState(timer))
        ELSE IF last.before[1].IsPaused
        THEN /\ last.err = "" /\ last.kept /\ last.logged = <<>>
             /\ Running
             /\ timer[1].TotalPaused =
                    last.before[1].TotalPaused + (now - last.before[1].PausedTime.t)
             /\ timer[1].TaskText = last.before[1].TaskText
             /\ timer[1].FilePath = last.before[1].FilePath
             /\ timer[1].TaskLine = last.before[1].TaskLine
             /\ timer[1].StartTime = last.before[1].StartTime
        ELSE /\ last.err = "NotPaused" /\ last.ops = <<>>
             /\ timer = last.before /\ last.kept

\* a resume with a search text naming another task, issued some time after
\* the pause
C11_Witness ==
    /\ last.cmd = "resume" /\ last.before # NoState /\ last.before[1].IsPaused
    /\ last.arg # <<>>
    /\ ~Contains(ToLower(last.before[1].TaskText), ToLower(last.arg))
    /\ now > last.before[1].PausedTime.t
(***************************************************************************)
(* The task lookup of start on its own: two note files in scan order and   *)
(* a search text, with no timer running.                                   *)
(***************************************************************************)
FindLines == {<<"-"," ","["," ","]"," ","F","i","x"," ","b","u","g"," ","n","o","w">>, <<"-"," ","["," ","]"," ","f","i","x"," ","B","U","G">>, <<"-"," ","["," ","]"," ","W","r","i","t","e"," ","r","e","p","o","r","t">>}

MaxFindLines == 2

FindNotes == UNION {[1..n -> FindLines] : n \in 1..MaxFindLines}

FindTexts == {<<"F","i","x"," ","B","u","g">>, <<"F","I","X">>, <<"r","e","p","o","r","t">>, <<"z","z","z">>}

FindInit ==
    \E a \in FindNotes \cup {Missing}, p \in FindNotes \cup {Missing}, text \in FindTexts :
        /\ files = [f \in Paths |-> IF f = "daily/a.md" THEN a ELSE p]
        /\ call = <<text>>
        /\ timer = NoState
        /\ now = StartOfRun
        /\ tz = 0
        /\ ran = 0
        /\ ticks = 0
        /\ nlogged = 0
        /\ last = NoStep
        /\ ret = NotCalled

\* findTaskByText(searchText) runs, and startTimer(searchText) on the same
\* files
Find ==
    /\ call # <<>>
    /\ ret = NotCalled
    /\ ret' = <<[found |-> findTaskByText(files, call[1]),
                 out   |-> startTimer(files, timer, now, call[1])]>>
    /\ UNCHANGED <<files, timer, now, tz, ran, ticks, nlogged, last, call>>

SpecFind == FindInit /\ [][Find]_vars

\* the tasks of the note files in scan order
Scanned == AllTasksFrom(files, 1)

\* the places in scan order of the tasks whose text holds the search text,
\* and of those whose whole text is the search text, letter case aside
Matching == {i \in 1..Len(Scanned) : Contains(ToLower(Scanned[i].Text), ToLower(call[1]))}
Exact == {i \in Matching : ToLower(Scanned[i].Text) = ToLower(call[1])}

\* the first place of a set of places
First(places) == CHOOSE i \in places : \A j \in places : i <= j

\* C12: start selects its task by case-insensitive substring match on the
\* task text over all tasks in scan order.  With no match it fails with
\* TaskNotFound and writes no state; with one match it uses that task; with
\* several it uses the first whose whole text equals the search text
\* case-insensitively, and otherwise the first match in scan order.
C12_Selects ==
    ret # NotCalled =>
        IF Matching = {}
        THEN /\ ret[1].found = <<>>
             /\ ret[1].out.err = "TaskNotFound"
             /\ ret[1].out.timer = NoState /\ ret[1].out.ops = <<>>
        ELSE /\ ret[1].found =
                    <<Scanned[IF Cardinality(Matching) = 1 THEN First(Matching)
                              ELSE IF Exact # {} THEN First(Exact)
                              ELSE First(Matching)]>>
             /\ ret[1].out.err = ""
             /\ ret[1].out.timer = <<StateFor(ret[1].found[1], now, tz)>>
             /\ ret[1].out.ops = <<"SaveState">>

\* several tasks match, in both files, and one whose whole text is the
\* search text comes after one that only holds it
C12_Witness ==
    /\ ret # NotCalled
    /\ Cardinality(Matching) > 2
    /\ Exact # {} /\ First(Exact) > First(Matching)
    /\ ret[1].found[1].FilePath = "projects/p.md"
(***************************************************************************)
(* The duration codec on its own: a string is parsed, the duration is      *)
(* formatted, and the formatted string is parsed again.                    *)
(***************************************************************************)
DurationChars == {"0", "1", "9", "h", "m", "-"}

MaxDurationLen == 4

\* every string over DurationChars up to the length bound, and the strings
\* the notes and the documentation use
DurationStrings ==
    UNION {[1..n -> DurationChars] : n \in 0..MaxDurationLen}
    \cup {<<"9","0","s">>, <<"1",".","5","h">>, <<"-","5","m">>, <<"1","h","3","0">>, <<"1","H","3","0","M">>, <<"1","h","1","5","m">>, <<"4","5","M">>, <<"2","h">>,
          <<"1","0","h","5","m">>, <<"1","h","9","0","m">>, <<"+","5","m">>, <<"1","h","+","3","0","m">>, <<"1",".","h">>, <<"0">>, <<"5","m","s">>, <<"a","b","c">>}

DurationInit ==
    \E s \in DurationStrings :
        /\ call = <<s>>
        /\ ret = NotCalled
        /\ files = [p \in Paths |-> Missing]
        /\ timer = NoState
        /\ now = StartOfRun
        /\ tz = 0
        /\ ran = 0
        /\ ticks = 0
        /\ nlogged = 0
        /\ last = NoStep

\* parseDuration(s) runs
Parse ==
    /\ call # <<>>
    /\ ret = NotCalled
    /\ ret' = <<parseDuration(call[1])>>
    /\ UNCHANGED <<files, timer, now, tz, ran, ticks, nlogged, last, call>>

\* formatDuration runs on the duration parsed
Format ==
    /\ Len(ret) = 1
    /\ ret[1].ok
    /\ ret' = ret \o <<formatDuration(ret[1].val)>>
    /\ UNCHANGED <<files, timer, now, tz, ran, ticks, nlogged, last, call>>

\* parseDuration runs on the formatted string
Reparse ==
    /\ Len(ret) = 2
    /\ ret' = ret \o <<parseDuration(ret[2])>>
    /\ UNCHANGED <<files, timer, now, tz, ran, ticks, nlogged, last, call>>

SpecDuration == DurationInit /\ [][Parse \/ Format \/ Reparse]_vars

(***************************************************************************)
(* Claims about the duration codec.                                        *)
(***************************************************************************)
\* one or more digits
IsNumber(x) == Len(x) > 0 /\ AllDigits(x)

\* one or more digits after an optional sign
IsSigned(x) == IsNumber(x) \/ (Len(x) > 1 /\ x[1] \in {"+", "-"} /\ IsNumber(Tail(x)))

\* the places where s, of the shape <H>h<M>m, has its h
HourMark(s, Num(_)) ==
    {i \in 1..Len(s) : /\ s[i] = "h" /\ s[Len(s)] = "m"
                       /\ Num(SubSeq(s, 1, i - 1))
                       /\ Num(SubSeq(s, i + 1, Len(s) - 1))}

\* s has one of the shapes <H>h<M>m, <H>h, <M>m, for numbers as Num says
Shaped(s, Num(_)) ==
    \/ HourMark(s, Num) # {}
    \/ Len(s) > 0 /\ s[Len(s)] \in {"h", "m"} /\ Num(SubSeq(s, 1, Len(s) - 1))

\* the duration a string of the shapes <H>h<M>m, <H>h, <M>m stands for
ShapeSeconds(s) ==
    IF HourMark(s, IsNumber) # {}
    THEN LET i == CHOOSE i \in HourMark(s, IsNumber) : TRUE
         IN  DigitsVal(SubSeq(s, 1, i - 1)) * SecPerHour
             + DigitsVal(SubSeq(s, i + 1, Len(s) - 1)) * SecPerMin
    ELSE DigitsVal(SubSeq(s, 1, Len(s) - 1))
         * (IF s[Len(s)] = "h" THEN SecPerHour ELSE SecPerMin)

\* the string given, in lower case
Given == ToLower(call[1])

\* C13: for every duration string of the shapes <H>h<M>m, <H>h, <M>m (H and
\* M digits; minute values of 60 or more and zero components included),
\* parsing succeeds, and parsing the formatted duration succeeds and gives
\* the same duration.
C13_RoundTrip ==
    Shaped(Given, IsNumber) =>
        /\ Len(ret) >= 1 => ret[1].ok /\ ret[1].val = ShapeSeconds(Given)
        /\ Len(ret) = 3 => ret[3].ok /\ ret[3].val = ret[1].val

\* a string with hours and 60 minutes or more has made the round trip, and
\* so has one with a zero component
C13_Witness ==
    /\ Len(ret) = 3
    /\ \/ call[1] = <<"1","h","9","0","m">> /\ ret[2] = <<"2","h","3","0","m">>
       \/ call[1] = <<"1","h","0","m">> /\ ret[2] = <<"1","h">>

\* C14 as stated: parseDuration succeeds only for strings of the shapes
\* <H>h<M>m, <H>h, <M>m (case-insensitive, H and M digits) and fails for
\* every other string.
C14_Original == Len(ret) >= 1 => (ret[1].ok <=> Shaped(Given, IsNumber))

\* C14, amended: parseDuration succeeds exactly for the strings that,
\* lower-cased, time.ParseDuration accepts (an optional sign and one or
\* more groups of a decimal number, with or without a fraction, and a unit
\* ns, us, ms, s, m or h; or 0) or that have one of the shapes <H>h<M>m,
\* <H>h, <M>m with H and M decimal integers with an optional sign; for the
\* unsigned shapes the duration is H hours and M minutes.  It fails for
\* every other string.
C14_ParseAccepts ==
    Len(ret) >= 1 =>
        /\ ret[1].ok <=> (GoParseDuration(Given).ok \/ Shaped(Given, IsSigned))
        /\ Shaped(Given, IsNumber) => ret[1].val = ShapeSeconds(Given)
        /\ call[1] \in {<<"9","0","s">>, <<"1",".","5","h">>, <<"-","5","m">>} => ret[1].ok
        /\ call[1] \in {<<"1","h","3","0">>, <<>>} => ~ret[1].ok

\* a string only the second, manual stage reads, and one only the first
\* stage reads
C14_Witness ==
    /\ Len(ret) >= 1 /\ ret[1].ok
    /\ \/ call[1] = <<"1","h","+","3","0","m">> /\ ret[1].val = 90 * SecPerMin
       \/ call[1] = <<"1",".","5","h">> /\ ret[1].val = 90 * SecPerMin
(***************************************************************************)
(* Further claims about the Time-Log Writer.                               *)
(***************************************************************************)
\* the number of lines of a file: a newline at the end of the file ends the
\* last line and starts no other
LineCount(lines) ==
    IF Len(lines) > 0 /\ lines[Len(lines)] = <<>> THEN Len(lines) - 1 ELSE Len(lines)

\* the file the writer was given
GivenFile == call[1].fs[WriterPath]

\* C15 as stated: addTimeEntry fails with LineOutOfRange, leaving the file
\* unchanged, whenever taskLine exceeds the number of lines of the file,
\* also for a file that ends with a newline and taskLine = line count + 1.
C15_Original ==
    (ret # NotCalled /\ GivenFile # Missing
        /\ call[1].state.TaskLine > LineCount(GivenFile))
    => ret[1].err = "LineOutOfRange" /\ files = call[1].fs
(***************************************************************************)
(* Task ordering: sortTasks on the task list ShowTasks collects.           *)
(***************************************************************************)
\* priorityOrder of sortTasks
priorityOrder(level) ==
    IF level = <<"h","i","g","h">> THEN 0 ELSE IF level = <<"m","e","d","i","u","m">> THEN 1 ELSE 2

\* the comparison of the default mode, and the last part of that of the
\* priority mode; Before compares two due dates, both at midnight UTC
LessByDue(a, b) ==
    IF a.DueDate # NoDate /\ b.DueDate # NoDate
    THEN DayNumber(a.DueDate) < DayNumber(b.DueDate)
    ELSE IF a.DueDate # NoDate THEN TRUE
    ELSE IF b.DueDate # NoDate THEN FALSE
    ELSE StringLess(PathText(a.FilePath), PathText(b.FilePath))

\* the comparison of the priority mode
LessByPriority(a, b) ==
    IF priorityOrder(getPriorityLevel(detectPriority(a.Text)))
           # priorityOrder(getPriorityLevel(detectPriority(b.Text)))
    THEN priorityOrder(getPriorityLevel(detectPriority(a.Text)))
           < priorityOrder(getPriorityLevel(detectPriority(b.Text)))
    ELSE LessByDue(a, b)

\* the less function sortTasks hands to sort.Slice
Less(sortBy, a, b) ==
    IF ToLower(sortBy) = <<"p","r","i","o","r","i","t","y">> THEN LessByPriority(a, b)
    ELSE IF ToLower(sortBy) = <<"f","i","l","e">>
         THEN StringLess(PathText(a.FilePath), PathText(b.FilePath))
    ELSE LessByDue(a, b)

\* sort.Slice is not stable: the outcomes of sortTasks are the arrangements
\* of the tasks in which no task is less than one before it
sortTasks(tasks, sortBy) ==
    {r \in {[i \in 1..Len(tasks) |-> tasks[perm[i]]] :
                perm \in Permutations(1..Len(tasks))} :
        \A i, j \in 1..Len(r) : i < j => ~Less(sortBy, r[j], r[i])}

\* the files ShowTasks walks, in the order it walks them: the directory
\* projects comes before the directory meetings
SortOrder == <<"projects/p.md", "meetings/m.md">>

SortLines == {<<"-"," ","["," ","]"," ","P","a","y"," ","r","e","n","t"," ","d","u","e",":","2","0","2","4","-","0","1","-","2","0">>,
              <<"-"," ","["," ","]"," ","C","a","l","l"," ","b","a","n","k"," ","u","r","g","e","n","t"," ","d","u","e",":","2","0","2","4","-","0","1","-","2","0">>,
              <<"-"," ","["," ","]"," ","R","e","a","d"," ","b","o","o","k">>,
              <<"-"," ","["," ","]"," ","P","l","a","n"," ","t","r","i","p"," ","s","o","o","n"," ","d","u","e",":","2","0","2","4","-","0","1","-","1","0">>}

MaxSortLines == 2

SortNotes == UNION {[1..n -> SortLines] : n \in 1..MaxSortLines}

SortModes == {<<"p","r","i","o","r","i","t","y">>, <<"f","i","l","e">>, <<"d","u","e">>}

SortInit ==
    \E p \in SortNotes, m \in SortLines, by \in SortModes :
        /\ files = [f \in {SortOrder[1], SortOrder[2]} |->
                       IF f = SortOrder[1] THEN p ELSE <<m>>]
        /\ call = <<by>>
        /\ ret = NotCalled
        /\ timer = NoState
        /\ now = StartOfRun
        /\ tz = 0
        /\ ran = 0
        /\ ticks = 0
        /\ nlogged = 0
        /\ last = NoStep

\* sortTasks(tasks, sortBy) runs on the task list ShowTasks collects
Sort ==
    /\ call # <<>>
    /\ ret = NotCalled
    /\ \E r \in sortTasks(extractTasks(files, SortOrder[1])
                             \o extractTasks(files, SortOrder[2]), call[1]) :
           ret' = <<r>>
    /\ UNCHANGED <<files, timer, now, tz, ran, ticks, nlogged, last, call>>

SpecSort == SortInit /\ [][Sort]_vars

(***************************************************************************)
(* Claims about the task ordering.                                         *)
(***************************************************************************)
\* the priority level of a task as a number: high 0, medium 1, low 2
Level(task) == priorityOrder(getPriorityLevel(detectPriority(task.Text)))

\* a comes before b by due date, a task without a due date being last
DueBefore(a, b) ==
    /\ a.DueDate # NoDate
    /\ b.DueDate = NoDate \/ DayNumber(a.DueDate) < DayNumber(b.DueDate)

PathBefore(a, b) == StringLess(PathText(a.FilePath), PathText(b.FilePath))

\* a comes before b by due date and then, the due dates being the same or
\* both absent, by file path
DueThenPath(a, b) ==
    \/ DueBefore(a, b)
    \/ a.DueDate = b.DueDate /\ PathBefore(a, b)

\* a comes before b by priority level, then due date, then file path
PriorityThenDueThenPath(a, b) ==
    \/ Level(a) < Level(b)
    \/ Level(a) = Level(b) /\ DueThenPath(a, b)

\* C16 as stated: in priority mode the tasks are ordered by priority level,
\* then due date (no due date last), then file path; in the default mode by
\* due date (no due date last), then file path; so two tasks with the same
\* due date, equal on the earlier keys, are in ascending file-path order.
C16_Original ==
    (ret # NotCalled /\ call[1] # <<"f","i","l","e">>) =>
        \A i, j \in 1..Len(ret[1]) : i < j =>
            IF call[1] = <<"p","r","i","o","r","i","t","y">>
            THEN ~PriorityThenDueThenPath(ret[1][j], ret[1][i])
            ELSE ~DueThenPath(ret[1][j], ret[1][i])

\* the line of the timed task, counted from 1
TimedLine == call[1].state.TaskLine

Indented(line) == HasPrefix(line, <<" ", " ">>)

\* the markers after the task line, within the ten lines the writer looks at
Markers ==
    {m \in (TimedLine + 1)..Len(GivenFile) :
        m <= TimedLine + 10 /\ Contains(GivenFile[m], STimeLog)}

\* the marker nearest to the task line
NearestMarker == CHOOSE m \in Markers : \A n \in Markers : m <= n

\* a line that is neither indented nor blank comes between the task line
\* and the nearest marker
MarkerOutsideBlock ==
    /\ Markers # {}
    /\ \E i \in (TimedLine + 1)..(NearestMarker - 1) :
          ~Indented(GivenFile[i]) /\ TrimSpace(GivenFile[i]) # <<>>

\* C17 as stated: when a non-indented, non-blank line comes between the
\* task line and the nearest marker, the entry is not inserted into that
\* marker's block but as a new "Time log:" block right after the task line.
C17_Original ==
    (Written /\ TaskAtTaskLine /\ MarkerOutsideBlock) =>
        /\ ret[1].added = 2
        /\ files[WriterPath][TimedLine + 1] = <<" ", " ">> \o STimeLog
        /\ files[WriterPath][TimedLine + 2] = formatTimeEntry(WrittenEntry)

\* the last line of the run of indented lines that follows line m
RECURSIVE BlockEnd(_)
BlockEnd(m) ==
    IF m < Len(GivenFile) /\ Indented(GivenFile[m + 1]) THEN BlockEnd(m + 1) ELSE m

BlockLines == (NearestMarker + 1)..BlockEnd(NearestMarker)

EntryLines == {i \in BlockLines : HasPrefix(GivenFile[i], <<" ", " ", Bullet>>)}

Trailers ==
    {i \in BlockLines : Contains(GivenFile[i], SRemaining) \/ Contains(GivenFile[i], STotal)}

\* the timed task has a "Time log:" block of its own, whose Remaining: and
\* Total: lines, if any, come after its entry lines
HasOwnBlock ==
    /\ Markers # {} /\ ~MarkerOutsideBlock
    /\ \A e \in EntryLines, t \in Trailers : e < t

\* C18: when the timed task already has a "Time log:" block, addTimeEntry
\* inserts one line, the new entry, inside that block, after all its
\* existing entry lines and before its Remaining: or Total: line if there is
\* one, so the entries stay in the order they were logged.
C18_AppendsToBlock ==
    (Written /\ TaskAtTaskLine /\ HasOwnBlock) =>
        /\ ret[1].added = 1
        /\ files[WriterPath][ret[1].at] = formatTimeEntry(WrittenEntry)
        /\ NearestMarker < ret[1].at /\ ret[1].at <= BlockEnd(NearestMarker) + 1
        /\ \A e \in EntryLines : e < ret[1].at
        /\ \A t \in Trailers : ret[1].at <= t

\* an entry added to a block that has an entry and a Remaining: line
C18_Witness ==
    /\ Written /\ TaskAtTaskLine /\ HasOwnBlock
    /\ EntryLines # {} /\ Trailers # {}
    /\ Contains(files[WriterPath][ret[1].at + 1], SRemaining)
(***************************************************************************)
(* Claims about start when its implicit stop fails.                        *)
(***************************************************************************)
\* a start found a timer and could not stop it: the writer failed, so the
\* note files are as the command found them
ImplicitStopFailed ==
    /\ StartWhileActive /\ last.kept
    /\ stopTimer(files, last.before, now).err # ""

\* C19: when the implicit stop of start fails, the failure is not
\* propagated: start still looks the search text up and, when a task is
\* found, succeeds and writes a fresh Running state for that task in place
\* of the old timer's state; when none is found it fails with TaskNotFound.
C19_StopFailureSwallowed ==
    ImplicitStopFailed =>
        /\ last.logged = <<>>
        /\ IF findTaskByText(files, last.arg) = <<>>
           THEN last.err = "TaskNotFound" /\ timer = last.before
           ELSE /\ last.err = "" /\ last.ops = <<"SaveState">>
                /\ timer = <<StateFor(findTaskByText(files, last.arg)[1], now, tz)>>
                /\ FreshState(timer)

\* the note of the timed task is gone, and start has put a timer for a task
\* of the other note in place of the old one
C19_Witness ==
    /\ ImplicitStopFailed /\ last.err = ""
    /\ files[last.before[1].FilePath] = Missing
    /\ timer[1].FilePath # last.before[1].FilePath
    /\ timer[1].TaskText # last.before[1].TaskText

\* C20 as stated: a task line with a due token of the shape YYYY-MM-DD that
\* is not a calendar date, `- [ ] Pay rent due:2024-13-45`, yields a task
\* with no due date and with the token still in its text.
C20_Original ==
    ret # NotCalled =>
        \A k \in LinesThatAre(LineBadDue) :
            /\ Len(TasksOfLine(k)) = 1
            /\ TasksOfLine(k)[1].DueDate = NoDate
            /\ TasksOfLine(k)[1].Text = <<"P","a","y"," ","r","e","n","t"," ","d","u","e",":","2","0","2","4","-","1","3","-","4","5">>

\* the file extractTasks has read
Extracted == files["daily/a.md"]

\* the lines of the indented block of the task on line k: the lines after
\* it up to the first that is neither indented by two spaces nor blank
TaskBlock(k) ==
    {j \in (k + 1)..Len(Extracted) :
        \A i \in (k + 1)..j :
            HasPrefix(Extracted[i], <<" ", " ">>) \/ TrimSpace(Extracted[i]) = <<>>}

\* C21 as stated: only lines of a task's indented block open a time-log
\* block for it, set its remaining or override its totalTime: a task has
\* time entries only if a "Time log:" line is in its block, a remaining
\* only if a Remaining: line is, and a totalTime other than the sum of its
\* entries only if a Total: line is.
C21_Original ==
    ret # NotCalled =>
        \A n \in 1..Len(ret[1]) :
            /\ ret[1][n].TimeEntries # <<>> =>
                   \E j \in TaskBlock(ret[1][n].Line) : TimeLogMatch(Extracted[j])
            /\ ret[1][n].Remaining # <<>> =>
                   \E j \in TaskBlock(ret[1][n].Line) : LabelMatch(SRemaining, Extracted[j]).ok
            /\ ret[1][n].TotalTime # SumDurations(ret[1][n].TimeEntries) =>
                   \E j \in TaskBlock(ret[1][n].Line) : LabelMatch(STotal, Extracted[j]).ok

\* the lines read for the n-th extracted task: those after its line and
\* before the line of the next task
LinesOfTask(n) ==
    (ret[1][n].Line + 1)..(IF n < Len(ret[1]) THEN ret[1][n + 1].Line - 1
                           ELSE Len(Extracted))

\* the durations of the Total: lines of the n-th task that parse
TotalsOfTask(n) ==
    {parseDuration(LabelMatch(STotal, Extracted[j]).text).val :
        j \in {i \in LinesOfTask(n) :
                  /\ LabelMatch(STotal, Extracted[i]).ok
                  /\ parseDuration(LabelMatch(STotal, Extracted[i]).text).ok}}

\* C22 as stated: the totalTime of every extracted task is the sum of the
\* durations of its time entries, unless a Total: line with a parseable
\* duration is present for it; then totalTime is exactly the parsed value,
\* and nothing is added to it.
C22_Original ==
    ret # NotCalled =>
        \A n \in 1..Len(ret[1]) :
            IF TotalsOfTask(n) = {}
            THEN ret[1][n].TotalTime = SumDurations(ret[1][n].TimeEntries)
            ELSE ret[1][n].TotalTime \in TotalsOfTask(n)
(***************************************************************************)
(* Summary statistics.                                                     *)
(***************************************************************************)

\* a mutant of analyzeTaskStats: the status bucket is one more branch of the
\* effort chain
analyzeTaskStatsOneChain(tasks, t0) ==
    LET has(task, word) == Contains(ToLower(task.Text), word)
        quick(task)  == \/ has(task, <<"q","u","i","c","k">>) \/ has(task, <<"s","i","m","p","l","e">>)
                        \/ has(task, <<"e","a","s","y">>) \/ has(task, <<"f","i","x"," ","t","y","p","o">>)
                        \/ (has(task, <<"u","p","d","a","t","e">>) /\ Len(task.Text) < 30)
        energy(task) == \/ has(task, <<"d","e","s","i","g","n">>) \/ has(task, <<"a","r","c","h","i","t","e","c","t","u","r","e">>)
                        \/ has(task, <<"r","e","f","a","c","t","o","r">>) \/ has(task, <<"i","m","p","l","e","m","e","n","t">>)
        waits(task)  == \/ has(task, <<"b","l","o","c","k","e","d">>) \/ has(task, <<"w","a","i","t","i","n","g">>)
                        \/ has(task, <<"p","e","n","d","i","n","g">>)
    IN  [Total        |-> Len(tasks),
         QuickWins    |-> SelectSeq(tasks, quick),
         EnergyNeeded |-> SelectSeq(tasks, LAMBDA task : ~quick(task) /\ energy(task)),
         Blocked      |-> SelectSeq(tasks, LAMBDA task : ~quick(task) /\ ~energy(task) /\ waits(task))]

\* the tasks in the order given, appended to the buckets they fall in; the
\* texts of the model are ASCII, so len(task.Text) is the number of characters
analyzeTaskStats(tasks, t0) ==
    LET todayStr == FormatDate(DateOf(Wall(t0, tz)))
        has(task, word) == Contains(ToLower(task.Text), word)
        urgent(task) == detectPriority(task.Text) = "RED"
        dated(task)  == ~urgent(task) /\ task.DueDate # NoDate
        quick(task)  == \/ has(task, <<"q","u","i","c","k">>) \/ has(task, <<"s","i","m","p","l","e">>)
                        \/ has(task, <<"e","a","s","y">>) \/ has(task, <<"f","i","x"," ","t","y","p","o">>)
                        \/ (has(task, <<"u","p","d","a","t","e">>) /\ Len(task.Text) < 30)
        energy(task) == \/ has(task, <<"d","e","s","i","g","n">>) \/ has(task, <<"a","r","c","h","i","t","e","c","t","u","r","e">>)
                        \/ has(task, <<"r","e","f","a","c","t","o","r">>) \/ has(task, <<"i","m","p","l","e","m","e","n","t">>)
        waits(task)  == \/ has(task, <<"b","l","o","c","k","e","d">>) \/ has(task, <<"w","a","i","t","i","n","g">>)
                        \/ has(task, <<"p","e","n","d","i","n","g">>)
    IN  [Total        |-> Len(tasks),
         Urgent       |-> SelectSeq(tasks, urgent),
         Overdue      |-> SelectSeq(tasks, LAMBDA task :
                              dated(task) /\ StringLess(FormatDate(task.DueDate), todayStr)),
         Today        |-> SelectSeq(tasks, LAMBDA task :
                              dated(task) /\ FormatDate(task.DueDate) = todayStr),
         Other        |-> SelectSeq(tasks, LAMBDA task :
                              /\ ~urgent(task)
                              /\ (task.DueDate # NoDate =>
                                      /\ ~StringLess(FormatDate(task.DueDate), todayStr)
                                      /\ FormatDate(task.DueDate) # todayStr)),
         QuickWins    |-> SelectSeq(tasks, quick),
         EnergyNeeded |-> SelectSeq(tasks, LAMBDA task : ~quick(task) /\ energy(task)),
         Blocked      |-> SelectSeq(tasks, waits)]

(***************************************************************************)
(* The summary on its own: the tasks of a note, an instant and a zone.     *)
(***************************************************************************)
StatsLines == {<<"-"," ","["," ","]"," ","Q","u","i","c","k"," ","d","e","s","i","g","n"," ","r","e","v","i","e","w"," ","d","u","e",":","2","0","2","4","-","0","1","-","1","5">>,
               <<"-"," ","["," ","]"," ","R","e","f","a","c","t","o","r"," ","p","a","r","s","e","r"," ","d","u","e",":","2","0","2","4","-","0","1","-","1","4">>,
               <<"-"," ","["," ","]"," ","U","p","d","a","t","e"," ","d","o","c","s">>,
               <<"-"," ","["," ","]"," ","U","p","d","a","t","e"," ","t","h","e"," ","a","r","c","h","i","t","e","c","t","u","r","e"," ","o","v","e","r","v","i","e","w"," ","d","o","c","u","m","e","n","t">>,
               <<"-"," ","["," ","]"," ","E","a","s","y"," ","f","i","x"," ","b","l","o","c","k","e","d"," ","b","y"," ","r","e","v","i","e","w"," ","d","u","e",":","2","0","2","4","-","0","1","-","1","6">>,
               <<"-"," ","["," ","]"," ","I","m","p","l","e","m","e","n","t"," ","l","o","g","i","n"," ","p","e","n","d","i","n","g"," ","u","r","g","e","n","t">>,
               <<"-"," ","["," ","]"," ","W","a","i","t","i","n","g"," ","f","o","r"," ","d","e","s","i","g","n">>}

MaxStatsLines == 2

StatsNotes == UNION {[1..n -> StatsLines] : n \in 1..MaxStatsLines}

StatsInit ==
    \E z \in {0, 0 - 5 * SecPerHour}, t \in FilterNows, note \in StatsNotes :
        /\ tz = z
        /\ now = t
        /\ files = [p \in Paths |-> IF p = "daily/a.md" THEN note ELSE Missing]
        /\ call = <<AllTasksFrom(files, 1)>>
        /\ timer = NoState
        /\ ran = 0
        /\ ticks = 0
        /\ nlogged = 0
        /\ last = NoStep
        /\ ret = NotCalled

\* analyzeTaskStats runs over the tasks of the tree
Analyze ==
    /\ call # <<>>
    /\ ret = NotCalled
    /\ ret' = <<analyzeTaskStats(call[1], now)>>
    /\ UNCHANGED <<files, timer, now, tz, ran, ticks, nlogged, last, call>>

SpecStats == StatsInit /\ [][Analyze]_vars

\* the task is one of the tasks appended to the bucket
InBucket(bucket, task) == \E i \in 1..Len(bucket) : bucket[i] = task

\* the lowered text of the task contains one of the words
Mentions(task, words) == \E word \in words : Contains(ToLower(task.Text), word)

EnergyWords == {<<"d","e","s","i","g","n">>, <<"a","r","c","h","i","t","e","c","t","u","r","e">>, <<"r","e","f","a","c","t","o","r">>, <<"i","m","p","l","e","m","e","n","t">>}

BlockedWords == {<<"b","l","o","c","k","e","d">>, <<"w","a","i","t","i","n","g">>, <<"p","e","n","d","i","n","g">>}

\* C23 as stated: every task whose text contains design, architecture,
\* refactor or implement is in EnergyNeeded, even when it is also in
\* QuickWins, and every task whose text contains blocked, waiting or pending
\* is in Blocked whatever other buckets it is in.
C23_Original ==
    ret # NotCalled =>
        \A i \in 1..Len(call[1]) :
            /\ Mentions(call[1][i], EnergyWords) => InBucket(ret[1].EnergyNeeded, call[1][i])
            /\ Mentions(call[1][i], BlockedWords) => InBucket(ret[1].Blocked, call[1][i])

\* C23 as the code has it: QuickWins and EnergyNeeded exclude each other, a
\* task is in EnergyNeeded exactly when its text contains design,
\* architecture, refactor or implement and it is not in QuickWins; a task is
\* in Blocked exactly when its text contains blocked, waiting or pending,
\* whatever other buckets it is in.
C23_EffortExclusive ==
    ret # NotCalled =>
        \A i \in 1..Len(call[1]) :
            /\ InBucket(ret[1].EnergyNeeded, call[1][i]) <=>
                   /\ Mentions(call[1][i], EnergyWords)
                   /\ ~InBucket(ret[1].QuickWins, call[1][i])
            /\ InBucket(ret[1].Blocked, call[1][i]) <=> Mentions(call[1][i], BlockedWords)

\* a task with an energy word that is a quick win, and a blocked task that is
\* in EnergyNeeded too, have been analysed
C23_Witness ==
    /\ ret # NotCalled
    /\ \E i \in 1..Len(call[1]) :
           /\ Mentions(call[1][i], EnergyWords)
           /\ InBucket(ret[1].QuickWins, call[1][i])
    /\ \E i \in 1..Len(call[1]) :
           /\ InBucket(ret[1].Blocked, call[1][i])
           /\ InBucket(ret[1].EnergyNeeded, call[1][i])
(***************************************************************************)
(* Claims about the period window of the report.                           *)
(***************************************************************************)
\* the calendar date of a time.Time in its own location
DayOf(time) == DayNumber(DateOf(Wall(time.t, time.off)))

\* the calendar day, in the local zone, of a boundary of the window
LocalDay(t) == DayNumber(DateOf(Wall(t, tz)))

\* the entry is listed in the report under the task
Included(task, entry) ==
    \E r \in 1..Len(ret[1].Tasks) :
        /\ ret[1].Tasks[r].TaskInfo = task
        /\ \E k \in 1..Len(ret[1].Tasks[r].Entries) : ret[1].Tasks[r].Entries[k] = entry

\* the task has a row in the report
Reported(task) == \E r \in 1..Len(ret[1].Tasks) : ret[1].Tasks[r].TaskInfo = task

\* the tasks collectTimeData reads
ReportTasks == AllTasksFrom(files, 1)

\* C24 as stated: collectTimeData includes a time entry in the report if
\* and only if its calendar date d satisfies start <= d < end for the period
\* window (start day inclusive, end day exclusive), for every local
\* time-zone offset; a task none of whose entries is included is absent
\* from the report.
C24_Original ==
    ret # NotCalled /\ ret[1].err = "" =>
        \A i \in 1..Len(ReportTasks) :
            /\ \A k \in 1..Len(ReportTasks[i].TimeEntries) :
                   Included(ReportTasks[i], ReportTasks[i].TimeEntries[k]) <=>
                       /\ LocalDay(ret[1].StartDate) <= DayOf(ReportTasks[i].TimeEntries[k].Date)
                       /\ DayOf(ReportTasks[i].TimeEntries[k].Date) < LocalDay(ret[1].EndDate)
            /\ Reported(ReportTasks[i]) =>
                   \E k \in 1..Len(ReportTasks[i].TimeEntries) :
                       Included(ReportTasks[i], ReportTasks[i].TimeEntries[k])
(***************************************************************************)
(* The report in a location with a change of offset: the week of Monday    *)
(* 2024-10-28, whose Sunday 2024-11-03 ends daylight saving time at 06:00  *)
(* UTC in the zone that is four, then five hours west of UTC.              *)
(***************************************************************************)
Eastern == Location(0 - 4 * SecPerHour, 307 * SecPerDay + 6 * SecPerHour, 0 - 5 * SecPerHour)

WeekLocations == {Eastern} \cup {Location(z, 0, z) : z \in ReportZones}

\* 04:30, 12:00 and 23:30 UTC of 2024-10-28 .. 2024-11-04
WeekNows == {d * SecPerDay + h : d \in 301..308,
                                 h \in {4 * SecPerHour + 30 * SecPerMin, 12 * SecPerHour,
                                        23 * SecPerHour + 30 * SecPerMin}}

WeekInit ==
    \E loc \in WeekLocations, t \in WeekNows, period \in ReportPeriods :
        /\ tz = OffsetAt(loc, t)
        /\ now = t
        /\ files = [p \in Paths |->
                       IF p = "daily/a.md"
                       THEN ReportNote(<<>>, [y |-> 2024, m |-> 10, d |-> 28],
                                       [y |-> 2024, m |-> 11, d |-> 3])
                       ELSE Missing]
        /\ call = <<[period |-> period, loc |-> loc]>>
        /\ timer = NoState
        /\ ran = 0
        /\ ticks = 0
        /\ nlogged = 0
        /\ last = NoStep
        /\ ret = NotCalled

\* collectTimeData(period) runs in the location
ReportIn ==
    /\ call # <<>>
    /\ ret = NotCalled
    /\ ret' = <<collectTimeDataIn(files, call[1].period, now, call[1].loc)>>
    /\ UNCHANGED <<files, timer, now, tz, ran, ticks, nlogged, last, call>>

SpecWeek == WeekInit /\ [][ReportIn]_vars

\* the wall-clock reading of instant t in the location of the call
WallIn(t) == Wall(t, OffsetAt(call[1].loc, t))

\* C25 as stated: collectTimeData("week") uses the window [most recent
\* Monday 00:00, +7 days): for every current day of the week the window
\* start is a Monday at midnight with start <= now < end, and when today is
\* Sunday the start is the Monday six days earlier.
C25_Original ==
    ret # NotCalled /\ call[1].period = <<"w","e","e","k">> =>
        /\ Weekday(WallIn(ret[1].StartDate)) = 1
        /\ WallIn(ret[1].StartDate) % SecPerDay = 0
        /\ ret[1].StartDate <= now
        /\ now < ret[1].EndDate
        /\ ret[1].EndDate = ret[1].StartDate + 7 * SecPerDay
        /\ Weekday(WallIn(now)) = 0 =>
               WallIn(now) \div SecPerDay = WallIn(ret[1].StartDate) \div SecPerDay + 6
(***************************************************************************)
(* The entry parser on its own: an entry line made of a date, a time       *)
(* range and a parenthesized duration, read in some zone.                  *)
(***************************************************************************)
EntryDays == {<<"2","0","2","4","-","0","1","-","1","5">>, <<"2","0","2","4","-","1","3","-","4","5">>}

EntryStarts == {<<"0","9",":","0","0">>, <<"2","3",":","0","0">>, <<"9","a","m">>}

EntryEnds == {<<"1","0",":","0","0">>, <<"1","0",":","3","0">>, <<"0","1",":","0","0">>}

EntryDurations == {<<"1","h">>, <<"1","h","3","0","m">>, <<"2","h">>, <<"5","h">>, <<"l","o","n","g">>}

EntryLine(day, from, to, dur) ==
    <<Bullet, " ">> \o day \o <<" ">> \o from \o <<"-">> \o to \o <<" ", "(">> \o dur
    \o <<")">> \o SDash \o SWorkSession

EntryInit ==
    \E z \in ReportZones, day \in EntryDays, from \in EntryStarts, to \in EntryEnds,
       dur \in EntryDurations :
        /\ tz = z
        /\ now = StartOfRun
        /\ files = [p \in Paths |-> Missing]
        /\ call = <<EntryLine(day, from, to, dur)>>
        /\ timer = NoState
        /\ ran = 0
        /\ ticks = 0
        /\ nlogged = 0
        /\ last = NoStep
        /\ ret = NotCalled

\* parseTimeEntry(line) runs
ParseEntry ==
    /\ call # <<>>
    /\ ret = NotCalled
    /\ ret' = <<parseTimeEntry(call[1])>>
    /\ UNCHANGED <<files, timer, now, tz, ran, ticks, nlogged, last, call>>

SpecEntry == EntryInit /\ [][ParseEntry]_vars

\* C26 as stated: every TimeEntry produced by parsing a time-entry line
\* satisfies duration = endTime - startTime; a line whose parenthesized
\* duration disagrees with its HH:MM-HH:MM range does not yield an entry
\* violating this.
C26_Original ==
    ret # NotCalled /\ ret[1].ok =>
        ret[1].Duration = ret[1].EndTime.t - ret[1].StartTime.t
(***************************************************************************)
(* Claims about the shape of the persisted timer state.                    *)
(***************************************************************************)
\* exactly one of Idle, Running and Paused holds
OneTimerState ==
    \/ Idle /\ ~Running /\ ~Paused
    \/ ~Idle /\ Running /\ ~Paused
    \/ ~Idle /\ ~Running /\ Paused

\* the persisted state, when there is one, is active, records the instant
\* of the pause exactly when it is paused, and has a paused total of at
\* least zero
PersistedShape ==
    timer # NoState =>
        /\ timer[1].IsActive
        /\ timer[1].PausedTime # ZeroTime <=> timer[1].IsPaused
        /\ timer[1].TotalPaused >= 0

\* a step that keeps a state file, other than a start command, does not
\* lower the paused total
PausedTotalGrows ==
    timer # NoState /\ timer' # NoState /\ ~(last'.cmd = "start" /\ last' # last) =>
        timer'[1].TotalPaused >= timer[1].TotalPaused

\* C27: after any sequence of start, pause, resume, stop and status commands
\* the timer is in exactly one of Idle, Running or Paused, and the state
\* file exists if and only if the timer is Running or Paused; every
\* persisted state has IsActive = true, has the pause instant set exactly
\* when IsPaused is true, and has TotalPaused >= 0, which never decreases
\* between a start and the next stop.
C27_TimerStates ==
    /\ [](OneTimerState /\ (timer # NoState <=> Running \/ Paused) /\ PersistedShape)
    /\ [][PausedTotalGrows]_vars

\* a timer that was paused and resumed, so that its paused total is above
\* zero, is paused again
C27_Witness == Paused /\ timer[1].TotalPaused > 0 /\ last.cmd = "pause"
(***************************************************************************)
(* Two invocations of the CLI at once.  Each runs stop or pause, one file  *)
(* operation at a time: it loads the state file, then (stop) reads the     *)
(* note, writes it and removes the state file, or (pause) saves the state  *)
(* file.  call holds, for each invocation, its command, its position and   *)
(* what it has read; ret is the list of the writes made, in order.         *)
(***************************************************************************)
Invocations == {1, 2}

RaceCommands == {"stop", "pause"}

\* an invocation that has just been launched
Launched(cmd) ==
    [cmd |-> cmd, pc |-> "load", state |-> NoState, elapsed |-> 0, lines |-> Missing,
     err |-> ""]

\* the invocation at a new position
Moved(i, inv) == [call EXCEPT ![i] = inv]

\* the file addTimeEntry writes: its newLines, built from the content the
\* invocation has read
Rewritten(inv) ==
    addTimeEntry([files EXCEPT ![inv.state[1].FilePath] = inv.lines], inv.state[1],
                 inv.elapsed)

RaceInit ==
    \E c1 \in RaceCommands, c2 \in RaceCommands, n \in 1..2 :
        /\ files = [p \in Paths |-> IF p = "daily/a.md" THEN NoteA ELSE NoteP]
        /\ timer = <<StateFor(extractTasks(files, "daily/a.md")[n], StartOfRun, SecPerHour)>>
        /\ now = StartOfRun + SecPerHour
        /\ tz = SecPerHour
        /\ ran = 0
        /\ ticks = 0
        /\ nlogged = 0
        /\ last = NoStep
        /\ call = <<Launched(c1), Launched(c2)>>
        /\ ret = <<>>

\* loadTimerState, and what the command computes from the state before its
\* next file operation
LoadState(i) ==
    /\ call[i].pc = "load"
    /\ call' = Moved(i,
           IF timer = NoState \/ ~timer[1].IsActive
           THEN [call[i] EXCEPT !.pc = "done", !.err = "NoActiveTimer"]
           ELSE IF call[i].cmd = "stop"
           THEN [call[i] EXCEPT !.pc = "read", !.state = timer,
                                !.elapsed = Elapsed(timer[1], now)]
           ELSE IF timer[1].IsPaused
           THEN [call[i] EXCEPT !.pc = "done", !.err = "AlreadyPaused"]
           ELSE [call[i] EXCEPT !.pc = "save",
                                !.state = <<[timer[1] EXCEPT !.IsPaused = TRUE,
                                                             !.PausedTime = Time(now, tz)]>>])
    /\ UNCHANGED <<files, timer, now, tz, ran, ticks, nlogged, last, ret>>

\* os.ReadFile of addTimeEntry
ReadNote(i) ==
    /\ call[i].pc = "read"
    /\ call' = Moved(i,
           IF files[call[i].state[1].FilePath] = Missing
           THEN [call[i] EXCEPT !.pc = "done", !.err = "FileReadError"]
           ELSE IF call[i].state[1].TaskLine > Len(files[call[i].state[1].FilePath])
           THEN [call[i] EXCEPT !.pc = "done", !.err = "LineOutOfRange"]
           ELSE [call[i] EXCEPT !.pc = "write",
                                !.lines = files[call[i].state[1].FilePath]])
    /\ UNCHANGED <<files, timer, now, tz, ran, ticks, nlogged, last, ret>>

\* a mutant of WriteNote: the entry is inserted into the file as it is at
\* the time of the write
WriteNoteMerging(i) ==
    /\ call[i].pc = "write"
    /\ files' = addTimeEntry(files, call[i].state[1], call[i].elapsed).fs
    /\ ret' = Append(ret, [by |-> i, wrote |-> "note"])
    /\ call' = Moved(i, [call[i] EXCEPT !.pc = "clear"])
    /\ UNCHANGED <<timer, now, tz, ran, ticks, nlogged, last>>

\* os.WriteFile of addTimeEntry
WriteNote(i) ==
    /\ call[i].pc = "write"
    /\ files' = [files EXCEPT ![call[i].state[1].FilePath] =
                     Rewritten(call[i]).fs[call[i].state[1].FilePath]]
    /\ ret' = Append(ret, [by |-> i, wrote |-> "note"])
    /\ call' = Moved(i, [call[i] EXCEPT !.pc = "clear"])
    /\ UNCHANGED <<timer, now, tz, ran, ticks, nlogged, last>>

\* clearTimerState: os.Remove fails when the file is gone
ClearState(i) ==
    /\ call[i].pc = "clear"
    /\ timer' = NoState
    /\ call' = Moved(i, [call[i] EXCEPT !.pc = "done",
                            !.err = IF timer = NoState THEN "ClearFailed" ELSE ""])
    /\ UNCHANGED <<files, now, tz, ran, ticks, nlogged, last, ret>>

\* saveTimerState of pauseTimer
SaveState(i) ==
    /\ call[i].pc = "save"
    /\ timer' = call[i].state
    /\ ret' = Append(ret, [by |-> i, wrote |-> "state"])
    /\ call' = Moved(i, [call[i] EXCEPT !.pc = "done"])
    /\ UNCHANGED <<files, now, tz, ran, ticks, nlogged, last>>

\* a minute passes between two file operations
RaceTick ==
    /\ ticks < MaxTicks
    /\ \E i \in Invocations : call[i].pc # "done"
    /\ now' = now + SecPerMin
    /\ ticks' = ticks + 1
    /\ UNCHANGED <<files, timer, tz, ran, nlogged, last, call, ret>>

\* the next file operation of invocation i
RaceStep(i) ==
    \/ LoadState(i)
    \/ ReadNote(i)
    \/ WriteNote(i)
    \/ ClearState(i)
    \/ SaveState(i)

RaceNext ==
    \/ \E i \in Invocations : RaceStep(i)
    \/ RaceTick

SpecRace == RaceInit /\ [][RaceNext]_vars

(***************************************************************************)
(* Claims about two invocations at once.                                   *)
(***************************************************************************)
\* the invocation has made its write of the kind
HasWritten(i, kind) == \E k \in 1..Len(ret) : ret[k] = [by |-> i, wrote |-> kind]

\* the invocation whose write of the kind came last
LaterWriter(kind) ==
    ret[CHOOSE k \in 1..Len(ret) :
            /\ ret[k].wrote = kind
            /\ \A j \in (k + 1)..Len(ret) : ret[j].wrote # kind].by

\* the other invocation
Other(i) == 3 - i

\* the note the timer state of the race points at
RacePath == call[1].state[1].FilePath

\* both invocations have written the note, each from the same content, read
\* before either wrote
NoteRace ==
    /\ HasWritten(1, "note") /\ HasWritten(2, "note")
    /\ call[1].lines = call[2].lines

\* both invocations have saved the state, each from the same state, loaded
\* before either saved
StateRace == HasWritten(1, "state") /\ HasWritten(2, "state")

\* what the note would hold had the earlier writer's entry been kept: the
\* later writer's entry inserted into the earlier writer's version
BothKept ==
    addTimeEntry(Rewritten(call[Other(LaterWriter("note"))]).fs,
                 call[LaterWriter("note")].state[1],
                 call[LaterWriter("note")].elapsed).fs[RacePath]

\* C28: two invocations interleaved at file-operation granularity never
\* block each other, and the outcome is last-writer-wins: when two
\* addTimeEntry calls (or two timer-state writes) both read the same file
\* before either writes it, the final file content is exactly the later
\* writer's version, and the earlier writer's update (its time entry or its
\* state) is lost.
C28_LastWriterWins ==
    /\ \A i \in Invocations : call[i].pc # "done" => ENABLED RaceStep(i)
    /\ NoteRace =>
           /\ files[RacePath] = Rewritten(call[LaterWriter("note")]).fs[RacePath]
           /\ files[RacePath] # BothKept
           /\ Len(files[RacePath]) < Len(BothKept)
    /\ StateRace /\ timer # NoState => timer = call[LaterWriter("state")].state

\* two stops have read the note before either wrote it, a minute apart, and
\* both have written it and have ended
C28_Witness ==
    /\ NoteRace
    /\ call[1].elapsed # call[2].elapsed
    /\ call[1].pc = "done" /\ call[2].pc = "done"
(***************************************************************************)
(* Claims about a start that finds no task.                                *)
(***************************************************************************)
\* start was given a text no task matches while a timer was active
FailedStartWhileActive == StartWhileActive /\ last.err = "TaskNotFound"

\* the old timer has been stopped: its time is in its task's file and its
\* state is gone
OldTimerStopped ==
    /\ last.logged # <<>>
    /\ last.logged[1].state = last.before[1]
    /\ last.logged[1].elapsed = last.ran
    /\ Contains(LoggedLine, <<"(">> \o formatDuration(last.ran) \o <<")">>)
    /\ last.ops = <<"WriteNote", "RemoveState">>
    /\ timer = NoState
    /\ Idle

\* C29 as stated: if start(searchText) fails with TaskNotFound while a
\* timer was active, the previously active timer has already been stopped:
\* its elapsed time is logged to its task's file and its persisted state is
\* deleted, so the system is Idle after the failed start and the old timer
\* is not left running.
C29_Original == FailedStartWhileActive => OldTimerStopped

\* C29 as the code has it: if start(searchText) fails with TaskNotFound
\* while a timer was active and the implicit stop succeeded, the old timer
\* has been stopped: its elapsed time is logged to its task's file, its
\* state is deleted and the system is Idle.  If the implicit stop failed
\* (the old task's file cannot be read), nothing is logged, no file is
\* changed, and the old timer's state is left as it was: the old timer is
\* still active after the failed start.
C29_FailedStartStopsIfItCan ==
    FailedStartWhileActive =>
        IF ImplicitStopFailed
        THEN /\ last.logged = <<>> /\ last.ops = <<>> /\ last.kept
             /\ timer = last.before /\ Active
        ELSE OldTimerStopped

\* a start that found no task has stopped the timer that was running
C29_Witness == FailedStartWhileActive /\ OldTimerStopped /\ last.ran > 0
(***************************************************************************)
(* Claims about the line a start stores after its implicit stop.           *)
(***************************************************************************)
\* the task of the state is the task line at the state's TaskLine in fs
TaskOnLine(fs, state) ==
    \E task \in Elements(extractTasks(fs, state.FilePath)) :
        task.Line = state.TaskLine /\ task.Text = state.TaskText

\* a stop of the state over fs writes its entry under the state's task:
\* below its line, with no other task line in between
WritesUnderTask(fs, state) ==
    /\ addTimeEntry(fs, state, SecPerHour).err = ""
    /\ addTimeEntry(fs, state, SecPerHour).at > state.TaskLine
    /\ \A j \in (state.TaskLine + 1)..addTimeEntry(fs, state, SecPerHour).at :
           ~TaskMatch(addTimeEntry(fs, state, SecPerHour).fs[state.FilePath][j]).ok

\* the step is a start that has stopped the old timer, logged its time, and
\* found its task
StartHasLogged ==
    /\ last.cmd = "none" /\ last'.cmd = "start"
    /\ timer # NoState
    /\ last'.err = "" /\ last'.logged # <<>>

\* the task start would have found before the implicit stop
FoundBefore == findTaskByText(files, last'.arg)[1]

\* C30 as stated: inside start, the task for the new timer is resolved only
\* after the implicit stop has rewritten the old task's file, so the TaskLine stored
\* in the new timer state is the task's line number in the file as it is
\* after the insertion: when the new task lies below the old task in the
\* same file, the stored line is its original line plus the number of
\* inserted lines, and the later stop writes under the correct task.
C30_Original ==
    [][StartHasLogged =>
          /\ TaskOnLine(files', timer'[1])
          /\ (FoundBefore.FilePath = timer[1].FilePath
                  /\ FoundBefore.Line > timer[1].TaskLine) =>
                 /\ timer'[1].TaskText = FoundBefore.Text
                 /\ timer'[1].TaskLine = FoundBefore.Line + last'.logged[1].added
                 /\ last'.logged[1].added > 0
                 /\ WritesUnderTask(files', timer'[1])]_vars

====
